---- MODULE Spec2Model ----
(***************************************************************************)
(* A model of the opencode-vicoa plugin: the bridge between an OpenCode    *)
(* terminal session ("Terminal") and the Vicoa dashboard ("Remote").       *)
(*                                                                         *)
(* Texts are sequences of tokens.  A token is a string that stands for a   *)
(* literal piece of the text: a word, one blank " ", "CR" (\r), "LF" (\n), *)
(* "TAB", the markers "<file>" and "</file>", "HDR" (the line "Called the  *)
(* Read tool with the following input:"), "DIR" (one directory listing     *)
(* block), "@f" (an @ mention), "/new" (a slash command word), or a whole  *)
(* JSON object.  The empty text is <<>>.                                   *)
(*                                                                         *)
(* Every await of the code is a suspension point.  A handler is modelled   *)
(* as one action per stretch of code between two suspension points; the    *)
(* handlers suspended at an await are kept in `hooks` (event hook) and in  *)
(* `ticks` (poll timer callbacks).                                         *)
(***************************************************************************)
EXTENDS Integers, Sequences, FiniteSets, TLC

VARIABLES
  messagePartsById,           \* Map<messageId, MessagePartsState>
  sentAssistantMessageIds,    \* Set<string>
  sentAssistantMessageQueue,  \* string[]
  messagesFromUI,             \* string[] : the echo buffer
  pendingPermissions,         \* Map<permId, PendingPermission>, in insertion order
  tuiCurrentAgent,            \* the agent the plugin believes the TUI shows
  preferredAgent,
  currentSessionId,
  lastMessageId,              \* VicoaClient.lastMessageId, 0 is null
  interval,                   \* MessagePoller.interval is set
  timers,                     \* the runtime's active setInterval timers of the poller
  hooks,                      \* event-hook invocations suspended at an await
  ticks,                      \* poll timer callbacks, by slot
  remote,                     \* Remote: the messages of the agent instance, by id
  term,                       \* Terminal: selector, prompt buffer, permissions
  hist                        \* history of what was observed and issued

vars == << messagePartsById, sentAssistantMessageIds, sentAssistantMessageQueue,
           messagesFromUI, pendingPermissions, tuiCurrentAgent, preferredAgent,
           currentSessionId, lastMessageId, interval, timers, hooks, ticks, remote,
           term, hist >>

(***************************************************************************)
(* Bounds of the model.                                                    *)
(***************************************************************************)
MaxTextLen == 2      \* tokens of the text accumulated for one part
MaxHooks == 2        \* event-hook invocations suspended at the same time
MaxLog == 3          \* messages Remote holds
MaxTicks == 2        \* poll callbacks in flight at the same time
MaxTyped == 1        \* user messages typed at the Terminal
MaxSubmitted == 1    \* submitted prompts the Terminal has not reported yet
MaxEchoOps == 3      \* operations on the echo buffer in one run
MaxTrackOps == 3     \* operations on the tracker of sent ids in one run

(***************************************************************************)
(* Program constants.                                                      *)
(***************************************************************************)
MAX_UI_MESSAGES == 50
UI_EVICT_BLOCK == 40
MAX_SENT_MESSAGE_IDS == 200
REASONING_MAX == 200

UNDEF == "undefined"          \* JavaScript undefined, for a name
NoDelta == << "undefined" >>  \* JavaScript undefined, for a text

(***************************************************************************)
(* Text helpers.                                                           *)
(***************************************************************************)
WS == { " ", "CR", "LF", "TAB" }

Range(s) == { s[i] : i \in DOMAIN s }

RECURSIVE TrimLeft(_)
TrimLeft(s) ==
  IF s = << >> THEN s
  ELSE IF Head(s) \in WS THEN TrimLeft(Tail(s)) ELSE s

RECURSIVE TrimRight(_)
TrimRight(s) ==
  IF s = << >> THEN s
  ELSE IF s[Len(s)] \in WS THEN TrimRight(SubSeq(s, 1, Len(s) - 1)) ELSE s

\* String.prototype.trim
Trim(s) == TrimRight(TrimLeft(s))

\* content.replace(/\r\n/g, '\n')
RECURSIVE ReplaceCRLF(_)
ReplaceCRLF(s) ==
  IF s = << >> THEN s
  ELSE IF Len(s) >= 2 /\ s[1] = "CR" /\ s[2] = "LF"
       THEN << "LF" >> \o ReplaceCRLF(SubSeq(s, 3, Len(s)))
       ELSE << Head(s) >> \o ReplaceCRLF(Tail(s))

normalizeMessage(content) == Trim(ReplaceCRLF(content))

\* the index of the first occurrence of token t in s, 0 when there is none
RECURSIVE IndexFrom(_, _, _)
IndexFrom(s, t, i) ==
  IF i > Len(s) THEN 0
  ELSE IF s[i] = t THEN i ELSE IndexFrom(s, t, i + 1)

IndexOf(s, t) == IndexFrom(s, t, 1)

\* cleaned.replace(TOOL_RESULT_HEADER, '') and cleaned.replace(UNCLOSED_FILE_TAG, ''):
\* the marker and everything after it goes
CutFrom(s, t) ==
  IF IndexOf(s, t) = 0 THEN s ELSE SubSeq(s, 1, IndexOf(s, t) - 1)

\* cleaned.replace(FILE_BLOCK, ''): every closed <file>...</file> block goes
RECURSIVE StripFileBlocks(_)
StripFileBlocks(s) ==
  LET open == IndexOf(s, "<file>")
      close == IF open = 0 THEN 0 ELSE IndexFrom(s, "</file>", open + 1)
  IN IF open = 0 \/ close = 0 THEN s
     ELSE SubSeq(s, 1, open - 1) \o StripFileBlocks(SubSeq(s, close + 1, Len(s)))

\* cleaned.replace(DIRECTORY_LISTING, '')
RECURSIVE StripDirListings(_)
StripDirListings(s) ==
  IF s = << >> THEN s
  ELSE IF Head(s) = "DIR" THEN StripDirListings(Tail(s))
       ELSE << Head(s) >> \o StripDirListings(Tail(s))

stripToolResults(text) ==
  StripDirListings(CutFrom(StripFileBlocks(CutFrom(text, "HDR")), "<file>"))

\* parts.join(sep)
RECURSIVE Join(_, _)
Join(ss, sep) ==
  IF ss = << >> THEN << >>
  ELSE IF Len(ss) = 1 THEN ss[1]
       ELSE ss[1] \o sep \o Join(Tail(ss), sep)

\* array.filter(x => x in keep)
KeepIn(s, keep) == SelectSeq(s, LAMBDA x : x \in keep)

\* a Map as a function on the set of its keys
MapSet(m, k, v) == [ x \in DOMAIN m \cup {k} |-> IF x = k THEN v ELSE m[x] ]
MapDelete(m, k) == [ x \in DOMAIN m \ {k} |-> m[x] ]
EmptyMap == [ x \in {} |-> << >> ]

RemoveAt(s, i) == SubSeq(s, 1, i - 1) \o SubSeq(s, i + 1, Len(s))

(***************************************************************************)
(* The accumulator of message parts.                                       *)
(***************************************************************************)
EmptyState == [ order |-> << >>, parts |-> EmptyMap, textByPartId |-> EmptyMap ]

\* the map after getMessageState(messageId) has run
getMessageState(mp, messageId) ==
  IF messageId \in DOMAIN mp THEN mp ELSE MapSet(mp, messageId, EmptyState)

\* setPartContent that moves the part id to the end of the order
setPartContentMoveLast(state, partId, content) ==
  LET order1 == Append(SelectSeq(state.order, LAMBDA id : id # partId), partId)
  IN IF content = << >>
     THEN [ state EXCEPT !.order = order1, !.parts = MapDelete(@, partId) ]
     ELSE [ state EXCEPT !.order = order1, !.parts = MapSet(@, partId, content) ]

setPartContent(state, partId, content) ==
  LET order1 == IF partId \in Range(state.order) THEN state.order
                ELSE Append(state.order, partId)
  IN IF content = << >>
     THEN [ state EXCEPT !.order = order1, !.parts = MapDelete(@, partId) ]
     ELSE [ state EXCEPT !.order = order1, !.parts = MapSet(@, partId, content) ]

truncateText(text, maxLength) ==
  IF Len(text) <= maxLength THEN text
  ELSE SubSeq(text, 1, maxLength) \o << "..." >>

formatReasoningPart(part) ==
  IF part.text = << >> THEN << >>
  ELSE << "[Thinking: " >> \o truncateText(part.text, REASONING_MAX) \o << "]" >>

\* formatFilePart for the parts handlePartUpdate passes to it: an image with
\* a url and no filename
formatFilePart(part) == << "![image](", part.url, ")" >>

\* formatToolUsage for a tool whose input names nothing to show
formatToolUsage(toolName) == << "Using tool: ", toolName >>

SUPPRESS_OUTPUT_TOOLS ==
  { "read", "notebookread", "list", "ls", "glob", "grep", "todoread", "lsp",
    "write", "edit", "multiedit", "patch", "notebookedit", "todowrite" }

\* formatToolResult for an output that is not a JSON object
formatToolResult(output) == output

TOOL_ERROR_MAX == 200

formatToolPart(toolPart) ==
  LET base == formatToolUsage(toolPart.tool)
  IN CASE toolPart.status = "completed" ->
            IF toolPart.tool \in SUPPRESS_OUTPUT_TOOLS \/ toolPart.output = << >>
            THEN base
            ELSE base \o << "LF", "Result: " >> \o formatToolResult(toolPart.output)
       [] toolPart.status = "error" ->
            base \o << "LF" >>
                 \o (IF toolPart.error # << >> THEN truncateText(toolPart.error, TOOL_ERROR_MAX)
                     ELSE << "Unknown error" >>)
       [] OTHER -> base

\* buildMessageContent without the filter of the parts that are blank
buildMessageContentAll(mp, messageId) ==
  IF messageId \notin DOMAIN mp THEN << >>
  ELSE LET state == mp[messageId]
           kept == KeepIn(state.order, DOMAIN state.parts)
           texts == [ i \in 1..Len(kept) |-> state.parts[kept[i]] ]
       IN Trim(Join(texts, << "LF", "LF" >>))

buildMessageContent(mp, messageId) ==
  IF messageId \notin DOMAIN mp THEN << >>
  ELSE LET state == mp[messageId]
           shown == { partId \in DOMAIN state.parts : Trim(state.parts[partId]) # << >> }
           kept == KeepIn(state.order, shown)
           texts == [ i \in 1..Len(kept) |-> state.parts[kept[i]] ]
       IN Trim(Join(texts, << "LF", "LF" >>))

\* handlePartUpdate that takes the full text of a text part and never its delta
handlePartUpdateNoDelta(mp, part, delta) ==
  IF part.messageID = "" THEN mp
  ELSE
    LET mp1 == getMessageState(mp, part.messageID)
        state == mp1[part.messageID]
        currentText == IF part.id \in DOMAIN state.textByPartId
                       THEN state.textByPartId[part.id] ELSE << >>
        nextText == IF part.text # << >> THEN part.text ELSE currentText
    IN CASE part.type = "text" ->
              [ mp1 EXCEPT ![part.messageID] =
                  setPartContent([ state EXCEPT !.textByPartId = MapSet(@, part.id, nextText) ],
                                 part.id, nextText) ]
         [] part.type = "reasoning" ->
              [ mp1 EXCEPT ![part.messageID] =
                  setPartContent(state, part.id, formatReasoningPart(part)) ]
         [] OTHER -> mp1

\* handlePartUpdate that registers every file part
handlePartUpdateAllFiles(mp, part, delta) ==
  IF part.messageID = "" THEN mp
  ELSE
    LET mp1 == getMessageState(mp, part.messageID)
        state == mp1[part.messageID]
        currentText == IF part.id \in DOMAIN state.textByPartId
                       THEN state.textByPartId[part.id] ELSE << >>
        nextText == IF delta # NoDelta THEN currentText \o delta
                    ELSE IF part.text # << >> THEN part.text ELSE currentText
    IN CASE part.type = "text" ->
              [ mp1 EXCEPT ![part.messageID] =
                  setPartContent([ state EXCEPT !.textByPartId = MapSet(@, part.id, nextText) ],
                                 part.id, nextText) ]
         [] part.type = "file" ->
              [ mp1 EXCEPT ![part.messageID] =
                  setPartContent(state, part.id, formatFilePart(part)) ]
         [] part.type = "patch" -> mp1
         [] part.type = "reasoning" ->
              [ mp1 EXCEPT ![part.messageID] =
                  setPartContent(state, part.id, formatReasoningPart(part)) ]
         [] OTHER -> mp1

handlePartUpdate(mp, part, delta) ==
  IF part.messageID = "" THEN mp
  ELSE
    LET mp1 == getMessageState(mp, part.messageID)
        state == mp1[part.messageID]
        currentText == IF part.id \in DOMAIN state.textByPartId
                       THEN state.textByPartId[part.id] ELSE << >>
        nextText == IF delta # NoDelta THEN currentText \o delta
                    ELSE IF part.text # << >> THEN part.text ELSE currentText
    IN CASE part.type = "text" ->
              [ mp1 EXCEPT ![part.messageID] =
                  setPartContent([ state EXCEPT !.textByPartId = MapSet(@, part.id, nextText) ],
                                 part.id, nextText) ]
         [] part.type = "file" ->
              IF part.mime = "image/" /\ part.url # ""
              THEN [ mp1 EXCEPT ![part.messageID] =
                       setPartContent(state, part.id, formatFilePart(part)) ]
              ELSE mp1
         [] part.type = "patch" -> mp1
         [] part.type = "reasoning" ->
              [ mp1 EXCEPT ![part.messageID] =
                  setPartContent(state, part.id, formatReasoningPart(part)) ]
         [] OTHER -> mp1

(***************************************************************************)
(* The tracker of forwarded assistant messages.                            *)
(***************************************************************************)
\* trackSentMessage without the set.delete(evicted)
trackSentMessageKeep(set, queue, messageId) ==
  IF messageId \in set THEN [ set |-> set, queue |-> queue ]
  ELSE LET queue1 == Append(queue, messageId)
       IN IF Len(queue1) > MAX_SENT_MESSAGE_IDS
          THEN [ set |-> set \cup {messageId}, queue |-> Tail(queue1) ]
          ELSE [ set |-> set \cup {messageId}, queue |-> queue1 ]

\* trackSentMessage; the evicted id leaves the set when it is truthy, that
\* is, when it is not the empty string
trackSentMessage(set, queue, messageId) ==
  IF messageId \in set THEN [ set |-> set, queue |-> queue ]
  ELSE LET queue1 == Append(queue, messageId)
           evicted == Head(queue1)
       IN IF Len(queue1) > MAX_SENT_MESSAGE_IDS
          THEN [ set |-> IF evicted # "" THEN (set \cup {messageId}) \ { evicted }
                         ELSE set \cup {messageId},
                 queue |-> Tail(queue1) ]
          ELSE [ set |-> set \cup {messageId}, queue |-> queue1 ]

(***************************************************************************)
(* Remote: the Vicoa backend.  A message's id is its place in `remote`.    *)
(* POST /messages/agent and /messages/user append a message and answer     *)
(* with its id; GET /messages/pending answers with the messages after      *)
(* last_read_message_id.                                                   *)
(***************************************************************************)
RemoteMessage(sender, content, of) ==
  [ sender_type |-> sender, content |-> content, of |-> of ]

\* a send whose failure clears the read cursor
SendResultClears(sender, content, of, ok) ==
  IF ok
  THEN [ remote |-> Append(remote, RemoteMessage(sender, content, of)),
         lastMessageId |-> Len(remote) + 1,
         message_id |-> Len(remote) + 1 ]
  ELSE [ remote |-> remote, lastMessageId |-> 0, message_id |-> 0 ]

\* VicoaClient.sendMessage / sendUserMessage, when the request comes back:
\* ok is response.ok; a failure is logged and answered with null (0)
SendResult(sender, content, of, ok) ==
  IF ok
  THEN [ remote |-> Append(remote, RemoteMessage(sender, content, of)),
         lastMessageId |-> Len(remote) + 1,
         message_id |-> Len(remote) + 1 ]
  ELSE [ remote |-> remote, lastMessageId |-> lastMessageId, message_id |-> 0 ]

\* Remote has room for one more message
RemoteHasRoom == Len(remote) < MaxLog

(***************************************************************************)
(* The event hook.                                                         *)
(***************************************************************************)
MsgIds == { "m1", "m2" }
PartIds == { "p1", "p2" }

Hook(kind, id, content, aux) ==
  [ kind |-> kind, id |-> id, content |-> content, aux |-> aux ]

TextPart(messageID, id, text) ==
  [ type |-> "text", messageID |-> messageID, id |-> id, text |-> text,
    mime |-> "", url |-> "", tool |-> "", status |-> "", output |-> << >>, error |-> << >> ]

ReasoningPart(messageID, id, text) ==
  [ type |-> "reasoning", messageID |-> messageID, id |-> id, text |-> text,
    mime |-> "", url |-> "", tool |-> "", status |-> "", output |-> << >>, error |-> << >> ]

ToolPart(messageID, id, tool, status, output, error) ==
  [ type |-> "tool", messageID |-> messageID, id |-> id, text |-> << >>,
    mime |-> "", url |-> "", tool |-> tool, status |-> status, output |-> output,
    error |-> error ]

\* a file part: mime "image/" stands for a mime type that starts with
\* 'image/', url "" for a part without a url
FilePart(messageID, id, mime, url) ==
  [ type |-> "file", messageID |-> messageID, id |-> id, text |-> << >>,
    mime |-> mime, url |-> url, tool |-> "", status |-> "", output |-> << >>, error |-> << >> ]

\* a part of a kind with no content of its own: 'patch', 'step-start', ...
BarePart(messageID, id, type) ==
  [ type |-> type, messageID |-> messageID, id |-> id, text |-> << >>,
    mime |-> "", url |-> "", tool |-> "", status |-> "", output |-> << >>, error |-> << >> ]

\* the part is of a kind handlePartUpdate registers content for
Registers(part) ==
  \/ part.type \in { "text", "reasoning" }
  \/ part.type = "file" /\ part.mime = "image/" /\ part.url # ""

\* the kind of a part event, with what decides how it is handled
KindOf(part) ==
  CASE part.type = "file" -> IF Registers(part) THEN "image" ELSE "file"
    [] OTHER -> part.type

\* the longest text kept for a part of any message
TextsFit(mp) ==
  \A m \in DOMAIN mp : \A p \in DOMAIN mp[m].textByPartId :
     Len(mp[m].textByPartId[p]) <= MaxTextLen

\* the accumulator holds content for the part
HasContent(mp, part) ==
  part.messageID \in DOMAIN mp /\ part.id \in DOMAIN mp[part.messageID].parts

\* case 'message.part.updated' that sends a tool part whatever its status
PartUpdatedAnyStatus(part, delta) ==
  LET flush == part.type = "tool" /\ formatToolPart(part) # << >>
      mp1 == IF part.type = "tool" THEN messagePartsById
             ELSE handlePartUpdate(messagePartsById, part, delta)
  IN /\ TextsFit(mp1)
     /\ flush => Len(hooks) < MaxHooks
     /\ messagePartsById' = mp1
     /\ hooks' = IF flush
                 THEN Append(hooks, Hook("tool", part.messageID, formatToolPart(part), << >>))
                 ELSE hooks
     /\ hist' = [ hist EXCEPT
                    !.emptied = IF HasContent(messagePartsById, part) /\ ~HasContent(mp1, part)
                                THEN @ \cup { << part.messageID, part.id >> } ELSE @,
                    !.ignored = IF Registers(part) THEN @ ELSE @ \cup { KindOf(part) } ]
     /\ UNCHANGED << sentAssistantMessageIds, sentAssistantMessageQueue, messagesFromUI,
                     pendingPermissions, tuiCurrentAgent, preferredAgent, currentSessionId,
                     lastMessageId, interval, timers, ticks, remote, term >>

\* case 'message.part.updated'
PartUpdated(part, delta) ==
  LET flush == part.type = "tool" /\ part.status \in { "completed", "error" }
                 /\ formatToolPart(part) # << >>
      mp1 == IF part.type = "tool" THEN messagePartsById
             ELSE handlePartUpdate(messagePartsById, part, delta)
  IN /\ TextsFit(mp1)
     /\ flush => Len(hooks) < MaxHooks
     /\ messagePartsById' = mp1
     /\ hooks' = IF flush
                 THEN Append(hooks, Hook("tool", part.messageID, formatToolPart(part), << >>))
                 ELSE hooks
     /\ hist' = [ hist EXCEPT
                    !.emptied = IF HasContent(messagePartsById, part) /\ ~HasContent(mp1, part)
                                THEN @ \cup { << part.messageID, part.id >> } ELSE @,
                    !.ignored = IF Registers(part) THEN @ ELSE @ \cup { KindOf(part) } ]
     /\ UNCHANGED << sentAssistantMessageIds, sentAssistantMessageQueue, messagesFromUI,
                     pendingPermissions, tuiCurrentAgent, preferredAgent, currentSessionId,
                     lastMessageId, interval, timers, ticks, remote, term >>

\* sendAgentSwitchToUi: the text sent
AgentSwitchText(agentName) == << "Agent changed to ", agentName, ". ", "{control}" >>

\* case 'message.updated' without the test of trimmedText.length
MessageUpdatedAnyText(message) ==
  LET reports == message.role = "user" /\ message.agent # UNDEF
      switch == reports /\ tuiCurrentAgent # message.agent
      finished == message.role = "assistant" /\ message.completed
      trimmedText == buildMessageContent(messagePartsById, message.id)
      sends == finished /\ message.id \notin sentAssistantMessageIds
      started == (IF switch
                  THEN << Hook("switch", message.agent, AgentSwitchText(message.agent), << >>) >>
                  ELSE << >>)
                 \o (IF sends THEN << Hook("forward", message.id, trimmedText, << >>) >>
                     ELSE << >>)
  IN /\ Len(hooks) + Len(started) <= MaxHooks
     /\ tuiCurrentAgent' = IF reports THEN message.agent ELSE tuiCurrentAgent
     /\ preferredAgent' = IF reports THEN message.agent ELSE preferredAgent
     /\ messagePartsById' = IF finished THEN MapDelete(messagePartsById, message.id)
                            ELSE messagePartsById
     /\ hooks' = hooks \o started
     /\ hist' = [ hist EXCEPT
                    !.finalized = IF finished THEN @ \cup { message.id } ELSE @,
                    !.owed = IF finished /\ trimmedText # << >> THEN @ \cup { message.id } ELSE @,
                    !.forwards = IF sends THEN [ @ EXCEPT ![message.id] = @ + 1 ] ELSE @,
                    !.reported = IF reports THEN message.agent ELSE @ ]
     /\ UNCHANGED << sentAssistantMessageIds, sentAssistantMessageQueue, messagesFromUI,
                     pendingPermissions, currentSessionId, lastMessageId, interval, timers, ticks,
                     remote, term >>

\* case 'message.updated' that sends the switch notice for every reported agent
MessageUpdatedAlwaysNotice(message) ==
  LET reports == message.role = "user" /\ message.agent # UNDEF
      switch == reports
      finished == message.role = "assistant" /\ message.completed
      trimmedText == buildMessageContent(messagePartsById, message.id)
      sends == finished /\ trimmedText # << >>
               /\ message.id \notin sentAssistantMessageIds
      started == (IF switch
                  THEN << Hook("switch", message.agent, AgentSwitchText(message.agent), << >>) >>
                  ELSE << >>)
                 \o (IF sends THEN << Hook("forward", message.id, trimmedText, << >>) >>
                     ELSE << >>)
  IN /\ Len(hooks) + Len(started) <= MaxHooks
     /\ tuiCurrentAgent' = IF reports THEN message.agent ELSE tuiCurrentAgent
     /\ preferredAgent' = IF reports THEN message.agent ELSE preferredAgent
     /\ messagePartsById' = IF finished THEN MapDelete(messagePartsById, message.id)
                            ELSE messagePartsById
     /\ hooks' = hooks \o started
     /\ hist' = [ hist EXCEPT
                    !.finalized = IF finished THEN @ \cup { message.id } ELSE @,
                    !.owed = IF finished /\ trimmedText # << >> THEN @ \cup { message.id } ELSE @,
                    !.forwards = IF sends THEN [ @ EXCEPT ![message.id] = @ + 1 ] ELSE @,
                    !.reported = IF reports THEN message.agent ELSE @ ]
     /\ UNCHANGED << sentAssistantMessageIds, sentAssistantMessageQueue, messagesFromUI,
                     pendingPermissions, currentSessionId, lastMessageId, interval, timers, ticks,
                     remote, term >>

\* case 'message.updated', up to its await of sendMessage
MessageUpdated(message) ==
  LET reports == message.role = "user" /\ message.agent # UNDEF
      switch == reports /\ tuiCurrentAgent # message.agent
      finished == message.role = "assistant" /\ message.completed
      trimmedText == buildMessageContent(messagePartsById, message.id)
      sends == finished /\ trimmedText # << >>
               /\ message.id \notin sentAssistantMessageIds
      started == (IF switch
                  THEN << Hook("switch", message.agent, AgentSwitchText(message.agent), << >>) >>
                  ELSE << >>)
                 \o (IF sends THEN << Hook("forward", message.id, trimmedText, << >>) >>
                     ELSE << >>)
  IN /\ Len(hooks) + Len(started) <= MaxHooks
     /\ tuiCurrentAgent' = IF reports THEN message.agent ELSE tuiCurrentAgent
     /\ preferredAgent' = IF reports THEN message.agent ELSE preferredAgent
     /\ messagePartsById' = IF finished THEN MapDelete(messagePartsById, message.id)
                            ELSE messagePartsById
     /\ hooks' = hooks \o started
     /\ hist' = [ hist EXCEPT
                    !.finalized = IF finished THEN @ \cup { message.id } ELSE @,
                    !.owed = IF finished /\ trimmedText # << >> THEN @ \cup { message.id } ELSE @,
                    !.forwards = IF sends THEN [ @ EXCEPT ![message.id] = @ + 1 ] ELSE @,
                    !.reported = IF reports THEN message.agent ELSE @ ]
     /\ UNCHANGED << sentAssistantMessageIds, sentAssistantMessageQueue, messagesFromUI,
                     pendingPermissions, currentSessionId, lastMessageId, interval, timers, ticks,
                     remote, term >>

\* pendingPermissions.set(id, pending): a Map keeps the place of a key it has
PermSet(pp, pending) ==
  IF \E i \in DOMAIN pp : pp[i].id = pending.id
  THEN [ i \in DOMAIN pp |-> IF pp[i].id = pending.id THEN pending ELSE pp[i] ]
  ELSE Append(pp, pending)

\* pendingPermissions.clear() in the place of delete(id)
PermDeleteAll(pp, id) == << >>

\* pendingPermissions.delete(id)
PermDelete(pp, id) == SelectSeq(pp, LAMBDA e : e.id # id)

\* the rest of an event handler, from the moment its awaited send returns
SendReturns(i, ok) ==
  LET h == hooks[i]
      sender == IF h.kind = "user" THEN "USER" ELSE "AGENT"
      of == IF h.kind = "forward" THEN h.id ELSE ""
      res == SendResult(sender, h.content, of, ok)
      tracked == IF h.kind = "forward"
                 THEN trackSentMessage(sentAssistantMessageIds, sentAssistantMessageQueue, h.id)
                 ELSE [ set |-> sentAssistantMessageIds, queue |-> sentAssistantMessageQueue ]
  IN /\ i \in DOMAIN hooks
     /\ ok => RemoteHasRoom
     /\ remote' = res.remote
     /\ lastMessageId' = res.lastMessageId
     /\ sentAssistantMessageIds' = tracked.set
     /\ sentAssistantMessageQueue' = tracked.queue
     /\ pendingPermissions' =
          IF h.kind = "asked"
          THEN PermSet(pendingPermissions,
                       [ id |-> h.id, sessionID |-> h.aux.sessionID, options |-> h.aux.options,
                         vicoaMessageId |-> res.message_id ])
          ELSE pendingPermissions
     /\ hooks' = RemoveAt(hooks, i)
     /\ UNCHANGED << messagePartsById, messagesFromUI, tuiCurrentAgent, preferredAgent,
                     currentSessionId, interval, timers, ticks, term, hist >>

(***************************************************************************)
(* Control commands.  A JSON object of a text is one token; JsonTable is   *)
(* what JSON.parse gives for it.  A token that is not in the table is not  *)
(* valid JSON.                                                             *)
(***************************************************************************)
Json(type, setting, value) == [ type |-> type, setting |-> setting, value |-> value ]

JsonTable ==
  [ tok \in { "{control agent_type DOCS}", "{control agent_type build}",
              "{control agent_type plan}", "{control agent_type nope}",
              "{control agent_type reviewer}", "{setting interrupt}",
              "{control agent_type}", "{control interrupt}", "{control zoom}",
              "{control agent_type explore}", "{control agent_type 7}",
              "{other}" } |->
      CASE tok = "{control agent_type DOCS}" -> Json("control", "agent_type", "DOCS")
        [] tok = "{control agent_type reviewer}" -> Json("control", "agent_type", "reviewer")
        [] tok = "{setting interrupt}" -> Json(UNDEF, "interrupt", UNDEF)
        [] tok = "{control agent_type build}" -> Json("control", "agent_type", "build")
        [] tok = "{control agent_type plan}" -> Json("control", "agent_type", "plan")
        [] tok = "{control agent_type nope}" -> Json("control", "agent_type", "nope")
        [] tok = "{control agent_type}" -> Json("control", "agent_type", UNDEF)
        [] tok = "{control agent_type explore}" -> Json("control", "agent_type", "explore")
        [] tok = "{control agent_type 7}" -> Json("control", "agent_type", "#7")
        [] tok = "{control interrupt}" -> Json("control", "interrupt", UNDEF)
        [] tok = "{control zoom}" -> Json("control", "zoom", UNDEF)
        [] OTHER -> Json("other", UNDEF, UNDEF) ]

NoPayload == Json("null", UNDEF, UNDEF)

\* the values of the table that are JSON numbers
JsonNumbers == { "#7" }

\* typeof value === 'string'
IsString(value) == value # UNDEF /\ value \notin JsonNumbers

\* parsed.control_command ?? (parsed.type === 'control' ? parsed : null), after JSON.parse
PayloadOf(tok) ==
  IF tok \in DOMAIN JsonTable /\ JsonTable[tok].type = "control"
  THEN JsonTable[tok] ELSE NoPayload

\* the objects that wrap another object under the field control_command: the
\* token of the object, and the token of the object it wraps
WrappedTable ==
  [ tok \in { "{cc {setting interrupt}}", "{cc {control zoom}}" } |->
      IF tok = "{cc {setting interrupt}}" THEN "{setting interrupt}" ELSE "{control zoom}" ]

\* the payload JSON.parse and the ?? give for the whole of a token
WholePayload(tok) ==
  IF tok \in DOMAIN WrappedTable THEN JsonTable[WrappedTable[tok]] ELSE PayloadOf(tok)

\* what /\{[^{}]*\}/ matches in a token: an object without braces inside, so
\* for an object that wraps another one the object wrapped
Candidate(tok) == IF tok \in DOMAIN WrappedTable THEN WrappedTable[tok] ELSE tok

\* the first candidate of trimmed.match(/\{[^{}]*\}/g) that carries a payload
RECURSIVE FirstPayload(_)
FirstPayload(s) ==
  IF s = << >> THEN NoPayload
  ELSE IF PayloadOf(Candidate(Head(s))) # NoPayload THEN PayloadOf(Candidate(Head(s)))
       ELSE FirstPayload(Tail(s))

\* extractControlPayload without the scan of the candidates
extractControlPayloadWhole(content) ==
  LET trimmed == Trim(content)
  IN IF Len(trimmed) = 1 /\ WholePayload(trimmed[1]) # NoPayload
     THEN WholePayload(trimmed[1])
     ELSE NoPayload

extractControlPayload(content) ==
  LET trimmed == Trim(content)
  IN IF Len(trimmed) = 1 /\ WholePayload(trimmed[1]) # NoPayload
     THEN WholePayload(trimmed[1])
     ELSE FirstPayload(trimmed)

\* String.prototype.toLowerCase, token by token
LowerTok(tok) ==
  CASE tok = "DOCS" -> "docs"
    [] tok = "Docs" -> "docs"
    [] tok = "Plan" -> "plan"
    [] tok = "Allow" -> "allow"
    [] tok = "ALLOW" -> "allow"
    [] tok = "Reject" -> "reject"
    [] tok = "Yes" -> "yes"
    [] tok = "No" -> "no"
    [] tok = "/NEW" -> "/new"
    [] OTHER -> tok

Lower(s) == [ i \in DOMAIN s |-> LowerTok(s[i]) ]

(***************************************************************************)
(* Agent cycling.                                                          *)
(***************************************************************************)
\* allAgents.filter(a => a.mode !== 'subagent' && !a.hidden)
primaryAgentsOf(allAgents) ==
  SelectSeq(allAgents, LAMBDA a : a.mode # "subagent" /\ ~a.hidden)

\* array.findIndex(a => a.name === name), counted from 1; 0 is "not found"
RECURSIVE FindIndexFrom(_, _, _)
FindIndexFrom(agents, name, i) ==
  IF i > Len(agents) THEN 0
  ELSE IF agents[i].name = name THEN i ELSE FindIndexFrom(agents, name, i + 1)

findIndex(agents, name) == FindIndexFrom(agents, name, 1)

\* a remainder that is never taken: the dividend as it is
JsModNoWrap(a, b) == a

\* JavaScript's %: the sign of the result is the sign of the dividend
JsMod(a, b) == IF a >= 0 THEN a % b ELSE 0 - ((0 - a) % b)

\* the step count with the subtraction turned round
cycleStepsReversed(primaryAgents, targetAgent, currentAgent) ==
  LET targetIdx == findIndex(primaryAgents, targetAgent)
      currentName == IF currentAgent # UNDEF THEN currentAgent
                     ELSE IF Len(primaryAgents) > 0 THEN primaryAgents[1].name ELSE UNDEF
      currentIdx == findIndex(primaryAgents, currentName)
  IN IF targetIdx = 0 THEN -1
     ELSE IF currentIdx = 0 THEN -1
     ELSE JsMod(currentIdx - targetIdx + Len(primaryAgents), Len(primaryAgents))

\* cycleTuiToAgent up to its loop: the number of agent.cycle steps, or -1
\* where the function returns false before the loop
cycleSteps(primaryAgents, targetAgent, currentAgent) ==
  LET targetIdx == findIndex(primaryAgents, targetAgent)
      currentName == IF currentAgent # UNDEF THEN currentAgent
                     ELSE IF Len(primaryAgents) > 0 THEN primaryAgents[1].name ELSE UNDEF
      currentIdx == findIndex(primaryAgents, currentName)
  IN IF targetIdx = 0 THEN -1
     ELSE IF currentIdx = 0 THEN -1
     ELSE JsMod(targetIdx - currentIdx + Len(primaryAgents), Len(primaryAgents))

\* the command the loop of cycleTuiToAgent executes
CycleCommand == "agent.cycle"

\* validNames.find(n => n.toLowerCase() === nextAgent), UNDEF when there is none
RECURSIVE FindName(_, _)
FindName(agents, nextAgent) ==
  IF agents = << >> THEN UNDEF
  ELSE IF LowerTok(Head(agents).name) = nextAgent THEN Head(agents).name
       ELSE FindName(Tail(agents), nextAgent)

(***************************************************************************)
(* Permissions.                                                            *)
(***************************************************************************)
Option(label, response) == [ label |-> label, response |-> response ]

DEFAULT_PERMISSION_OPTIONS ==
  << Option(<< "Allow" >>, "once"), Option(<< "Allow", " ", "always" >>, "always"),
     Option(<< "Reject" >>, "reject") >>

\* permission.metadata?.options: kind is "undefined" when the metadata or its
\* options field is absent, "string" for a value that is not an array, and
\* "array" for an array, whose labels are items
MetaOptions(kind, items) == [ kind |-> kind, items |-> items ]

\* metaOptions.map(...) without the slice(0, 3)
buildPermissionOptionsAll(metaOptions) ==
  LET responses == << "once", "always", "reject" >>
  IN IF metaOptions.kind = "array" /\ Len(metaOptions.items) > 0
     THEN [ i \in 1..Len(metaOptions.items) |->
              Option(metaOptions.items[i], IF i <= 3 THEN responses[i] ELSE "reject") ]
     ELSE DEFAULT_PERMISSION_OPTIONS

buildPermissionOptions(metaOptions) ==
  LET responses == << "once", "always", "reject" >>
      sliced == SubSeq(metaOptions.items, 1,
                       IF Len(metaOptions.items) < 3 THEN Len(metaOptions.items) ELSE 3)
  IN IF metaOptions.kind = "array" /\ Len(metaOptions.items) > 0
     THEN [ i \in 1..Len(sliced) |-> Option(sliced[i], responses[i]) ]
     ELSE DEFAULT_PERMISSION_OPTIONS

\* Number.parseInt(trimmed, 10): the digits the text starts with; -1 is NaN
ParseInt(trimmed) ==
  IF trimmed = << >> THEN -1
  ELSE CASE Head(trimmed) = "0" -> 0
         [] Head(trimmed) = "1" -> 1
         [] Head(trimmed) = "2" -> 2
         [] Head(trimmed) = "3" -> 3
         [] Head(trimmed) = "4" -> 4
         [] OTHER -> -1

RECURSIVE LabelMatch(_, _)
LabelMatch(options, trimmed) ==
  IF options = << >> THEN "null"
  ELSE IF Lower(Head(options).label) = trimmed THEN Head(options).response
       ELSE LabelMatch(Tail(options), trimmed)

\* "null" is null
parsePermissionReply(userReply, options) ==
  LET trimmed == Lower(Trim(userReply))
      num == ParseInt(trimmed)
      word == IF Len(trimmed) = 1 THEN trimmed[1] ELSE ""
  IN IF LabelMatch(options, trimmed) # "null" THEN LabelMatch(options, trimmed)
     ELSE IF num >= 1 /\ num <= Len(options) THEN options[num].response
     ELSE IF word \in { "allow", "yes", "y", "ok", "approve", "1" } THEN "once"
     ELSE IF word \in { "always", "forever", "permanent", "2" } THEN "always"
     ELSE IF word \in { "reject", "no", "n", "deny", "cancel", "3" } THEN "reject"
     ELSE "null"

\* the last pending permission the reply matches, in the place of the first
LastMatchFrom(pp, userMessage, i) ==
  LET hits == { k \in i..Len(pp) : parsePermissionReply(userMessage, pp[k].options) # "null" }
  IN IF hits = {} THEN 0 ELSE CHOOSE k \in hits : \A l \in hits : l <= k

\* the first pending permission, in insertion order, the reply matches; 0 when none
RECURSIVE FirstMatchFrom(_, _, _)
FirstMatchFrom(pp, userMessage, i) ==
  IF i > Len(pp) THEN 0
  ELSE IF parsePermissionReply(userMessage, pp[i].options) # "null" THEN i
       ELSE FirstMatchFrom(pp, userMessage, i + 1)

(***************************************************************************)
(* Slash commands.                                                         *)
(***************************************************************************)
\* OPENCODE_SLASH_COMMAND_ACTIONS, for the command names of the model
\* The table is a plain object and the lookup is OPENCODE_SLASH_COMMAND_ACTIONS[name]:
\* a name that Object.prototype defines gives the inherited member, which is
\* truthy, not undefined
SlashAction(name) ==
  CASE name = "new" -> "session.new"
    [] name = "compact" -> "session.compact"
    [] name = "share" -> "session.share"
    [] name = "constructor" -> "Object"
    [] OTHER -> UNDEF

\* the tokens that start with "/": a slash and a command name
SlashWords == { "/new", "/NEW", "/compact", "/share", "/deploy", "/constructor" }

\* a command word without its slash
SlashBody(tok) ==
  CASE tok = "/new" -> "new"
    [] tok = "/NEW" -> "NEW"
    [] tok = "/compact" -> "compact"
    [] tok = "/share" -> "share"
    [] tok = "/constructor" -> "constructor"
    [] OTHER -> "deploy"

\* parseSlashCommand; a name of UNDEF is null
parseSlashCommand(input) ==
  LET trimmed == Trim(input)
  IN IF trimmed = << >> \/ Head(trimmed) \notin SlashWords
     THEN [ name |-> UNDEF, rawName |-> UNDEF, arguments |-> << >> ]
     ELSE [ name |-> SlashBody(LowerTok(Head(trimmed))), rawName |-> SlashBody(Head(trimmed)),
            arguments |-> Trim(Tail(trimmed)) ]

\* the action handleSlashCommand executes directly, UNDEF when it returns false
SlashDirect(userMessage) ==
  LET parsed == parseSlashCommand(userMessage)
  IN IF parsed.name # UNDEF /\ SlashAction(parsed.name) # UNDEF /\ parsed.arguments = << >>
     THEN SlashAction(parsed.name) ELSE UNDEF

(***************************************************************************)
(* The echo buffer.                                                        *)
(***************************************************************************)
\* addUIMessage with messagesFromUI.shift() in the place of splice(0, 40)
addUIMessageShift(buffer, content) ==
  LET pushed == Append(buffer, normalizeMessage(content))
  IN IF Len(pushed) > MAX_UI_MESSAGES THEN Tail(pushed) ELSE pushed

\* addUIMessage
addUIMessage(buffer, content) ==
  LET pushed == Append(buffer, normalizeMessage(content))
  IN IF Len(pushed) > MAX_UI_MESSAGES
     THEN SubSeq(pushed, UI_EVICT_BLOCK + 1, Len(pushed))
     ELSE pushed

\* isFromUI without the splice(index, 1)
isFromUIKeep(buffer, content) ==
  [ found |-> IndexOf(buffer, normalizeMessage(content)) # 0, buffer |-> buffer ]

\* isFromUI: what it returns and the buffer it leaves
isFromUI(buffer, content) ==
  LET index == IndexOf(buffer, normalizeMessage(content))
  IN IF index # 0 THEN [ found |-> TRUE, buffer |-> RemoveAt(buffer, index) ]
     ELSE [ found |-> FALSE, buffer |-> buffer ]

\* the text the chat.message hook compares and forwards
chatFullText(parts) ==
  LET stripped == [ i \in DOMAIN parts |-> stripToolResults(parts[i]) ]
      kept == SelectSeq(stripped, LAMBDA text : Trim(text) # << >>)
  IN Join(kept, << "LF" >>)

(***************************************************************************)
(* The poller.  A tick is one run of the setInterval callback; setInterval *)
(* starts a run every pollIntervalMs whether or not the earlier runs have  *)
(* returned.  pc names the await the run is suspended at.                  *)
(***************************************************************************)
PermIds == { "perm1", "perm2" }

NoLoc ==
  [ nextAgent |-> "", match |-> UNDEF, cur |-> UNDEF, steps |-> 0, issued |-> 0,
    cmd |-> "", cycled |-> FALSE, listed |-> FALSE, reply |-> << >>,
    sel0 |-> 0, perm |-> "", sessionID |-> "", matched |-> "",
    action |-> "" ]

IdleTick == [ pc |-> "idle", req |-> 0, batch |-> << >>, idx |-> 0, content |-> << >>,
              loc |-> NoLoc ]

\* GET /messages/pending?last_read_message_id=req: the ids of the messages the
\* dashboard user queued after req
PendingAfter(req) ==
  LET ids == { id \in DOMAIN remote : id > req /\ remote[id].of = "ui" }
  IN SelectSeq([ id \in 1..Len(remote) |-> id ], LAMBDA id : id \in ids)

\* the place in the batch, from `from` on, of the first message the loop hands
\* to onMessage (sender_type USER and a content), 0 when there is none
RECURSIVE NextUser(_, _)
NextUser(batch, from) ==
  IF from > Len(batch) THEN 0
  ELSE IF remote[batch[from]].sender_type = "USER" /\ remote[batch[from]].content # << >>
       THEN from ELSE NextUser(batch, from + 1)

\* handleControlCommand that returns false for a setting it does not know
StartControlKnown(tk, payload) ==
  LET value == payload.value
      nextAgent == IF payload.setting = "agent_type" /\ IsString(value)
                   THEN LowerTok(value) ELSE ""
  IN CASE payload.setting = "interrupt" /\ currentSessionId = UNDEF ->
            [ tk EXCEPT !.pc = "ctl_send", !.loc.reply = << "Failed to interrupt" >> ]
       [] payload.setting = "interrupt" /\ currentSessionId # UNDEF ->
            [ tk EXCEPT !.pc = "int_exec", !.loc.cmd = "session.interrupt", !.loc.issued = 1 ]
       [] payload.setting = "agent_type" /\ nextAgent # "" ->
            [ tk EXCEPT !.pc = "ctl_agents", !.loc.nextAgent = nextAgent ]
       [] payload.setting = "agent_type" /\ nextAgent = "" -> [ tk EXCEPT !.pc = "ctl_status" ]
       [] OTHER -> [ tk EXCEPT !.pc = "append" ]

\* handleControlCommand with a payload, up to its first await
StartControl(tk, payload) ==
  LET value == payload.value
      nextAgent == IF payload.setting = "agent_type" /\ IsString(value)
                   THEN LowerTok(value) ELSE ""
  IN CASE payload.setting = "interrupt" /\ currentSessionId = UNDEF ->
            [ tk EXCEPT !.pc = "ctl_send", !.loc.reply = << "Failed to interrupt" >> ]
       [] payload.setting = "interrupt" /\ currentSessionId # UNDEF ->
            [ tk EXCEPT !.pc = "int_exec", !.loc.cmd = "session.interrupt", !.loc.issued = 1 ]
       [] payload.setting = "agent_type" /\ nextAgent # "" ->
            [ tk EXCEPT !.pc = "ctl_agents", !.loc.nextAgent = nextAgent ]
       [] OTHER -> [ tk EXCEPT !.pc = "ctl_status" ]

\* the onMessage callback with the permission loop before handleControlCommand
StartHandlerPermFirst(tk, k, pp, ui, h) ==
  LET id == tk.batch[k]
      userMessage == remote[id].content
      tk1 == [ tk EXCEPT !.idx = k, !.content = userMessage, !.loc = NoLoc ]
      h1 == [ h EXCEPT !.handled = @ \cup { id } ]
      payload == extractControlPayload(userMessage)
      m == FirstMatchFrom(pp, userMessage, 1)
  IN CASE m # 0 ->
            [ tick |-> [ tk1 EXCEPT !.pc = "perm_post", !.loc.perm = pp[m].id,
                                    !.loc.sessionID = pp[m].sessionID,
                                    !.loc.matched = parsePermissionReply(userMessage, pp[m].options) ],
              ui |-> ui,
              hist |-> [ h1 EXCEPT !.decisions[pp[m].id] = @ + 1 ] ]
       [] m = 0 /\ payload # NoPayload ->
            [ tick |-> StartControl(tk1, payload), ui |-> ui, hist |-> h1 ]
       [] payload = NoPayload /\ m = 0 /\ SlashDirect(userMessage) # UNDEF ->
            [ tick |-> [ tk1 EXCEPT !.pc = IF parseSlashCommand(userMessage).name = "share"
                                             /\ currentSessionId # UNDEF
                                          THEN "slash_share" ELSE "slash_exec",
                                    !.loc.action = SlashDirect(userMessage) ],
              ui |-> ui, hist |-> h1 ]
       [] OTHER ->
            [ tick |-> [ tk1 EXCEPT !.pc = "append" ],
              ui |-> addUIMessage(ui, userMessage), hist |-> h1 ]

\* the onMessage callback for batch[k], up to its first await: the tick, the
\* echo buffer and the history it leaves
StartHandler(tk, k, pp, ui, h) ==
  LET id == tk.batch[k]
      userMessage == remote[id].content
      tk1 == [ tk EXCEPT !.idx = k, !.content = userMessage, !.loc = NoLoc ]
      h1 == [ h EXCEPT !.handled = @ \cup { id } ]
      payload == extractControlPayload(userMessage)
      m == FirstMatchFrom(pp, userMessage, 1)
  IN CASE payload # NoPayload ->
            [ tick |-> StartControl(tk1, payload), ui |-> ui, hist |-> h1 ]
       [] payload = NoPayload /\ m # 0 ->
            [ tick |-> [ tk1 EXCEPT !.pc = "perm_post", !.loc.perm = pp[m].id,
                                    !.loc.sessionID = pp[m].sessionID,
                                    !.loc.matched = parsePermissionReply(userMessage, pp[m].options) ],
              ui |-> ui,
              hist |-> [ h1 EXCEPT !.decisions[pp[m].id] = @ + 1 ] ]
       [] payload = NoPayload /\ m = 0 /\ SlashDirect(userMessage) # UNDEF ->
            [ tick |-> [ tk1 EXCEPT !.pc = IF parseSlashCommand(userMessage).name = "share"
                                             /\ currentSessionId # UNDEF
                                          THEN "slash_share" ELSE "slash_exec",
                                    !.loc.action = SlashDirect(userMessage) ],
              ui |-> ui, hist |-> h1 ]
       [] OTHER ->
            [ tick |-> [ tk1 EXCEPT !.pc = "append" ],
              ui |-> addUIMessage(ui, userMessage), hist |-> h1 ]

\* the for loop of the callback from batch place `from` on, up to the next await
Resume(tk, from, pp, ui, h) ==
  IF NextUser(tk.batch, from) = 0
  THEN [ tick |-> IdleTick, ui |-> ui, hist |-> h ]
  ELSE StartHandler(tk, NextUser(tk.batch, from), pp, ui, h)

\* the callback has a handler in flight
InHandler(tk) == tk.pc \notin { "idle", "fetch" }

\* setInterval fires: the callback calls getPendingMessages, which reads
\* lastMessageId for its request
TickFires(t) ==
  /\ timers > 0
  /\ ticks[t].pc = "idle"
  /\ \A u \in 1..(t - 1) : ticks[u].pc # "idle"
  /\ ticks' = [ ticks EXCEPT ![t] = [ IdleTick EXCEPT !.pc = "fetch", !.req = lastMessageId ] ]
  /\ UNCHANGED << messagePartsById, sentAssistantMessageIds, sentAssistantMessageQueue,
                  messagesFromUI, pendingPermissions, tuiCurrentAgent, preferredAgent,
                  currentSessionId, lastMessageId, interval, timers, hooks, remote, term, hist >>

\* getPendingMessages returns; ok is "response.ok and not stale"
FetchReturns(t, ok) ==
  LET tk == ticks[t]
      messages == IF ok THEN PendingAfter(tk.req) ELSE << >>
      r == Resume([ tk EXCEPT !.batch = messages ], 1, pendingPermissions, messagesFromUI, hist)
  IN /\ tk.pc = "fetch"
     /\ lastMessageId' = IF messages # << >> THEN messages[Len(messages)] ELSE lastMessageId
     /\ ticks' = [ ticks EXCEPT ![t] = r.tick ]
     /\ messagesFromUI' = r.ui
     /\ hist' = r.hist
     /\ UNCHANGED << messagePartsById, sentAssistantMessageIds, sentAssistantMessageQueue,
                     pendingPermissions, tuiCurrentAgent, preferredAgent, currentSessionId,
                     interval, timers, hooks, remote, term >>

(***************************************************************************)
(* onMessage: the prompt path.  A Terminal call that fails throws; nothing *)
(* between the callback and the call catches it, so the run of the         *)
(* callback ends in its catch.                                             *)
(***************************************************************************)
\* how a call to the Terminal's client ends: done, an error returned in the
\* result (the client does not throw on it), or a rejected promise
Outcomes == { "ok", "err", "throw" }

NeedsSpace(userMessage) ==
  "@f" \in Range(userMessage) \/ (userMessage # << >> /\ Head(userMessage) \in SlashWords)

\* client.tui.appendPrompt({ text: userMessage }) returns
AppendReturns(t, o) ==
  LET tk == ticks[t]
  IN /\ tk.pc = "append"
     /\ term' = IF o = "ok" THEN [ term EXCEPT !.prompt = @ \o tk.content ] ELSE term
     /\ ticks' = [ ticks EXCEPT ![t] =
                     IF o = "throw" THEN IdleTick
                     ELSE IF NeedsSpace(tk.content) THEN [ tk EXCEPT !.pc = "append_space" ]
                     ELSE [ tk EXCEPT !.pc = "submit" ] ]
     /\ UNCHANGED << messagePartsById, sentAssistantMessageIds, sentAssistantMessageQueue,
                     messagesFromUI, pendingPermissions, tuiCurrentAgent, preferredAgent,
                     currentSessionId, lastMessageId, interval, timers, hooks, remote, hist >>

\* client.tui.appendPrompt({ text: ' ' }) returns
AppendSpaceReturns(t, o) ==
  LET tk == ticks[t]
  IN /\ tk.pc = "append_space"
     /\ term' = IF o = "ok" THEN [ term EXCEPT !.prompt = @ \o << " " >> ] ELSE term
     /\ ticks' = [ ticks EXCEPT ![t] =
                     IF o = "throw" THEN IdleTick ELSE [ tk EXCEPT !.pc = "submit" ] ]
     /\ UNCHANGED << messagePartsById, sentAssistantMessageIds, sentAssistantMessageQueue,
                     messagesFromUI, pendingPermissions, tuiCurrentAgent, preferredAgent,
                     currentSessionId, lastMessageId, interval, timers, hooks, remote, hist >>

\* client.tui.submitPrompt() returns: the Terminal takes what its prompt holds
SubmitReturns(t, o) ==
  LET tk == ticks[t]
      r == Resume(tk, tk.idx + 1, pendingPermissions, messagesFromUI, hist)
  IN /\ tk.pc = "submit"
     /\ (o = "ok" /\ term.prompt # << >>) => Len(term.submitted) < MaxSubmitted
     /\ term' = IF o = "ok" /\ term.prompt # << >>
                THEN [ term EXCEPT !.prompt = << >>,
                                   !.submitted = Append(@, [ text |-> term.prompt, origin |-> "remote" ]) ]
                ELSE term
     /\ ticks' = [ ticks EXCEPT ![t] = IF o = "throw" THEN IdleTick ELSE r.tick ]
     /\ messagesFromUI' = IF o = "throw" THEN messagesFromUI ELSE r.ui
     /\ hist' = IF o = "throw" THEN hist ELSE r.hist
     /\ UNCHANGED << messagePartsById, sentAssistantMessageIds, sentAssistantMessageQueue,
                     pendingPermissions, tuiCurrentAgent, preferredAgent, currentSessionId,
                     lastMessageId, interval, timers, hooks, remote >>

(***************************************************************************)
(* onMessage: the permission path and the slash path                       *)
(***************************************************************************)
\* client.postSessionIdPermissionsPermissionId returns.  The Terminal settles
\* the request when the post reaches it while the request is open; the entry
\* is deleted after the try/catch whatever the outcome
PermPostReturns(t, o) ==
  LET tk == ticks[t]
      pp == PermDelete(pendingPermissions, tk.loc.perm)
      r == Resume(tk, tk.idx + 1, pp, messagesFromUI, hist)
  IN /\ tk.pc = "perm_post"
     /\ term' = IF o = "ok" THEN [ term EXCEPT !.open = @ \ { tk.loc.perm } ] ELSE term
     /\ pendingPermissions' = pp
     /\ ticks' = [ ticks EXCEPT ![t] = r.tick ]
     /\ messagesFromUI' = r.ui
     /\ hist' = r.hist
     /\ UNCHANGED << messagePartsById, sentAssistantMessageIds, sentAssistantMessageQueue,
                     tuiCurrentAgent, preferredAgent, currentSessionId, lastMessageId,
                     interval, timers, hooks, remote >>

\* client.session.share of handleSlashCommand returns; url is the share url
\* of the answer, << >> when it has none.  A throw falls back to the TUI command
SlashShareReturns(t, o, url) ==
  LET tk == ticks[t]
      r == Resume(tk, tk.idx + 1, pendingPermissions, messagesFromUI, hist)
      sends == o = "ok" /\ url # << >>
  IN /\ tk.pc = "slash_share"
     /\ ticks' = [ ticks EXCEPT ![t] =
          IF o = "throw" THEN [ tk EXCEPT !.pc = "slash_exec" ]
          ELSE IF sends THEN [ tk EXCEPT !.pc = "slash_send", !.loc.reply = << "Share url: " >> \o url ]
          ELSE r.tick ]
     /\ messagesFromUI' = IF o = "throw" \/ sends THEN messagesFromUI ELSE r.ui
     /\ hist' = IF o = "throw" \/ sends THEN hist ELSE r.hist
     /\ UNCHANGED << messagePartsById, sentAssistantMessageIds, sentAssistantMessageQueue,
                     pendingPermissions, tuiCurrentAgent, preferredAgent, currentSessionId,
                     lastMessageId, interval, timers, hooks, remote, term >>

\* vicoaClient.sendMessage(`Share url: ...`) of handleSlashCommand returns
SlashSendReturns(t, ok) ==
  LET tk == ticks[t]
      res == SendResult("AGENT", tk.loc.reply, "", ok)
      r == Resume(tk, tk.idx + 1, pendingPermissions, messagesFromUI, hist)
  IN /\ tk.pc = "slash_send"
     /\ ok => RemoteHasRoom
     /\ remote' = res.remote
     /\ lastMessageId' = res.lastMessageId
     /\ ticks' = [ ticks EXCEPT ![t] = r.tick ]
     /\ messagesFromUI' = r.ui
     /\ hist' = r.hist
     /\ UNCHANGED << messagePartsById, sentAssistantMessageIds, sentAssistantMessageQueue,
                     pendingPermissions, tuiCurrentAgent, preferredAgent, currentSessionId,
                     interval, timers, hooks, term >>

\* executeTuiCommand(client, action) of handleSlashCommand returns
SlashExecReturns(t, o) ==
  LET tk == ticks[t]
      r == Resume(tk, tk.idx + 1, pendingPermissions, messagesFromUI, hist)
  IN /\ tk.pc = "slash_exec"
     /\ ticks' = [ ticks EXCEPT ![t] = IF o = "throw" THEN IdleTick ELSE r.tick ]
     /\ messagesFromUI' = IF o = "throw" THEN messagesFromUI ELSE r.ui
     /\ hist' = IF o = "throw" THEN hist ELSE r.hist
     /\ UNCHANGED << messagePartsById, sentAssistantMessageIds, sentAssistantMessageQueue,
                     pendingPermissions, tuiCurrentAgent, preferredAgent, currentSessionId,
                     lastMessageId, interval, timers, hooks, remote, term >>

(***************************************************************************)
(* onMessage: the control path (handleControlCommand, cycleTuiToAgent)     *)
(***************************************************************************)
UnknownAgentText(nextAgent) == << "Unknown agent ", nextAgent >>
AgentChangedText(selectedAgent) == << "Agent changed to ", selectedAgent, "." >>

\* client.app.agents() of handleControlCommand returns.  Without data the
\* filter throws, which the catch answers by accepting nextAgent as it is
CtlAgentsReturns(t, o) ==
  LET tk == ticks[t]
      match == FindName(primaryAgentsOf(term.agents), tk.loc.nextAgent)
  IN /\ tk.pc = "ctl_agents"
     /\ preferredAgent' = IF o # "ok" THEN tk.loc.nextAgent
                          ELSE IF match # UNDEF THEN match ELSE preferredAgent
     /\ ticks' = [ ticks EXCEPT ![t] =
          IF o # "ok"
          THEN [ tk EXCEPT !.pc = "ctl_send", !.loc.reply = AgentChangedText(tk.loc.nextAgent) ]
          ELSE IF match = UNDEF
          THEN [ tk EXCEPT !.pc = "ctl_send", !.loc.reply = UnknownAgentText(tk.loc.nextAgent) ]
          ELSE [ tk EXCEPT !.pc = "cyc_agents", !.loc.match = match,
                           !.loc.cur = tuiCurrentAgent, !.loc.sel0 = term.sel ] ]
     /\ UNCHANGED << messagePartsById, sentAssistantMessageIds, sentAssistantMessageQueue,
                     messagesFromUI, pendingPermissions, tuiCurrentAgent, currentSessionId,
                     lastMessageId, interval, timers, hooks, remote, term, hist >>

\* cycleTuiToAgent has returned `cycled` to handleControlCommand
AfterCycle(tk, cycled) ==
  [ tk EXCEPT !.pc = "ctl_send", !.loc.cycled = cycled,
              !.loc.reply = AgentChangedText(tk.loc.match) ]

\* client.app.agents() of cycleTuiToAgent returns: the step count is computed
\* and the first agent.cycle, if there is one, is issued
CycAgentsReturns(t, o) ==
  LET tk == ticks[t]
      steps == cycleSteps(primaryAgentsOf(term.agents), tk.loc.match, tk.loc.cur)
      cycled == o = "ok" /\ steps = 0
      loops == o = "ok" /\ steps > 0
  IN /\ tk.pc = "cyc_agents"
     /\ ticks' = [ ticks EXCEPT ![t] =
          IF loops
          THEN [ tk EXCEPT !.pc = "cyc_step", !.loc.steps = steps, !.loc.issued = 1,
                           !.loc.cmd = CycleCommand, !.loc.listed = TRUE ]
          ELSE AfterCycle([ tk EXCEPT !.loc.listed = (o = "ok") ], cycled) ]
     /\ tuiCurrentAgent' = IF cycled THEN tk.loc.match ELSE tuiCurrentAgent
     /\ hist' = IF loops THEN [ hist EXCEPT !.cycleOps = @ + 1 ] ELSE hist
     /\ UNCHANGED << messagePartsById, sentAssistantMessageIds, sentAssistantMessageQueue,
                     messagesFromUI, pendingPermissions, preferredAgent, currentSessionId,
                     lastMessageId, interval, timers, hooks, remote, term >>

\* the Terminal executes agent_cycle: its selector moves one place forward
\* through the primary agents and wraps at the end
TerminalCycle(tm) ==
  [ tm EXCEPT !.sel = (tm.sel % Len(primaryAgentsOf(tm.agents))) + 1 ]

\* executeTuiCommand(client, 'agent.cycle') of the loop returns
CycStepReturns(t, o) ==
  LET tk == ticks[t]
      more == o # "throw" /\ tk.loc.issued < tk.loc.steps
      done == o # "throw" /\ tk.loc.issued = tk.loc.steps
  IN /\ tk.pc = "cyc_step"
     /\ term' = IF o = "ok" THEN TerminalCycle(term) ELSE term
     /\ ticks' = [ ticks EXCEPT ![t] =
          IF more THEN [ tk EXCEPT !.loc.issued = @ + 1 ] ELSE AfterCycle(tk, done) ]
     /\ tuiCurrentAgent' = IF done THEN tk.loc.match ELSE tuiCurrentAgent
     /\ hist' = [ hist EXCEPT !.cycleOps = IF more THEN @ + 1 ELSE @,
                              !.cycleRet = @ + 1,
                              !.stepOutcomes = @ \cup { o } ]
     /\ UNCHANGED << messagePartsById, sentAssistantMessageIds, sentAssistantMessageQueue,
                     messagesFromUI, pendingPermissions, preferredAgent, currentSessionId,
                     lastMessageId, interval, timers, hooks, remote >>

\* executeTuiCommand(client, 'session.interrupt') returns, first and second
IntExecReturns(t, o) ==
  LET tk == ticks[t]
  IN /\ tk.pc = "int_exec"
     /\ ticks' = [ ticks EXCEPT ![t] =
          IF o = "throw"
          THEN [ tk EXCEPT !.pc = "ctl_send", !.loc.reply = << "Failed to interrupt." >> ]
          ELSE IF tk.loc.issued < 2 THEN [ tk EXCEPT !.loc.issued = @ + 1 ]
          ELSE [ tk EXCEPT !.pc = "ctl_send", !.loc.reply = << "Interrupted" >> ] ]
     /\ UNCHANGED << messagePartsById, sentAssistantMessageIds, sentAssistantMessageQueue,
                     messagesFromUI, pendingPermissions, tuiCurrentAgent, preferredAgent,
                     currentSessionId, lastMessageId, interval, timers, hooks, remote, term, hist >>

\* vicoaClient.sendMessage(reply) of handleControlCommand returns
CtlSendReturns(t, ok) ==
  LET tk == ticks[t]
      res == SendResult("AGENT", tk.loc.reply, "", ok)
  IN /\ tk.pc = "ctl_send"
     /\ ok => RemoteHasRoom
     /\ remote' = res.remote
     /\ lastMessageId' = res.lastMessageId
     /\ ticks' = [ ticks EXCEPT ![t] = [ tk EXCEPT !.pc = "ctl_status" ] ]
     /\ UNCHANGED << messagePartsById, sentAssistantMessageIds, sentAssistantMessageQueue,
                     messagesFromUI, pendingPermissions, tuiCurrentAgent, preferredAgent,
                     currentSessionId, interval, timers, hooks, term, hist >>

\* vicoaClient.updateStatus('AWAITING_INPUT') returns (it never throws) and
\* the handler returns
CtlStatusReturns(t) ==
  LET tk == ticks[t]
      r == Resume(tk, tk.idx + 1, pendingPermissions, messagesFromUI, hist)
  IN /\ tk.pc = "ctl_status"
     /\ ticks' = [ ticks EXCEPT ![t] = r.tick ]
     /\ messagesFromUI' = r.ui
     /\ hist' = r.hist
     /\ UNCHANGED << messagePartsById, sentAssistantMessageIds, sentAssistantMessageQueue,
                     pendingPermissions, tuiCurrentAgent, preferredAgent, currentSessionId,
                     lastMessageId, interval, timers, hooks, remote, term >>

(***************************************************************************)
(* What happens at the Terminal and at Remote.                             *)
(***************************************************************************)
\* the dashboard user queues a message at Remote
RemoteUserSends(text) ==
  /\ RemoteHasRoom
  /\ remote' = Append(remote, RemoteMessage("USER", text, "ui"))
  /\ UNCHANGED << messagePartsById, sentAssistantMessageIds, sentAssistantMessageQueue,
                  messagesFromUI, pendingPermissions, tuiCurrentAgent, preferredAgent,
                  currentSessionId, lastMessageId, interval, timers, hooks, ticks, term, hist >>

\* somebody types a prompt at the Terminal and submits it
TermTyped(text) ==
  /\ hist.typed < MaxTyped
  /\ Len(term.submitted) < MaxSubmitted
  /\ term' = [ term EXCEPT !.submitted = Append(@, [ text |-> text, origin |-> "typed" ]) ]
  /\ hist' = [ hist EXCEPT !.typed = @ + 1 ]
  /\ UNCHANGED << messagePartsById, sentAssistantMessageIds, sentAssistantMessageQueue,
                  messagesFromUI, pendingPermissions, tuiCurrentAgent, preferredAgent,
                  currentSessionId, lastMessageId, interval, timers, hooks, ticks, remote >>

\* the parts of the user message the Terminal builds from a submitted text:
\* the text itself and, when it mentions a file, the text with the result of
\* reading the file behind it
TerminalParts(text) ==
  IF "@f" \in Range(text)
  THEN << text \o << "LF", "HDR", "LF", "<file>", "x", "</file>" >> >>
  ELSE << text >>

\* the 'chat.message' hook for the oldest submitted text, up to its await
ChatMessage ==
  LET sub == Head(term.submitted)
      fullText == chatFullText(TerminalParts(sub.text))
      echo == isFromUI(messagesFromUI, fullText)
      forwards == fullText # << >> /\ ~echo.found
  IN /\ term.submitted # << >>
     /\ forwards => Len(hooks) < MaxHooks
     /\ term' = [ term EXCEPT !.submitted = Tail(@) ]
     /\ messagesFromUI' = IF fullText # << >> THEN echo.buffer ELSE messagesFromUI
     /\ hooks' = IF forwards THEN Append(hooks, Hook("user", "", fullText, << >>)) ELSE hooks
     /\ hist' = IF forwards /\ sub.origin = "remote"
                THEN [ hist EXCEPT !.echoed = @ \cup { sub.text } ] ELSE hist
     /\ UNCHANGED << messagePartsById, sentAssistantMessageIds, sentAssistantMessageQueue,
                     pendingPermissions, tuiCurrentAgent, preferredAgent, currentSessionId,
                     lastMessageId, interval, timers, ticks, remote >>

\* `${i + 1}. `
OrdinalTok(i) ==
  CASE i = 1 -> "1. " [] i = 2 -> "2. " [] i = 3 -> "3. " [] OTHER -> "4. "

\* formatPermissionRequest: the heading, the permission and the [OPTIONS]
\* envelope, one line "<n>. <label>" for each option
formatPermissionRequest(permission, options) ==
  << "**Permission Required**", permission.id, "LF", "LF", "[OPTIONS]", "LF" >>
    \o Join([ i \in DOMAIN options |-> << OrdinalTok(i) >> \o options[i].label ], << "LF" >>)
    \o << "LF", "[/OPTIONS]" >>

\* case 'permission.asked', up to its await of sendMessage
PermissionAsked(permission) ==
  LET options == buildPermissionOptions(permission.metaOptions)
  IN /\ permission.id \notin hist.asked
     /\ Len(hooks) < MaxHooks
     /\ term' = [ term EXCEPT !.open = @ \cup { permission.id } ]
     /\ hooks' = Append(hooks, Hook("asked", permission.id,
                                    formatPermissionRequest(permission, options),
                                    [ sessionID |-> permission.sessionID, options |-> options ]))
     /\ hist' = [ hist EXCEPT !.asked = @ \cup { permission.id } ]
     /\ UNCHANGED << messagePartsById, sentAssistantMessageIds, sentAssistantMessageQueue,
                     messagesFromUI, pendingPermissions, tuiCurrentAgent, preferredAgent,
                     currentSessionId, lastMessageId, interval, timers, ticks, remote >>

\* the request is answered at the Terminal itself; case 'permission.replied'
PermissionReplied(permissionID) ==
  /\ permissionID \in term.open
  /\ term' = [ term EXCEPT !.open = @ \ { permissionID } ]
  /\ pendingPermissions' = PermDelete(pendingPermissions, permissionID)
  /\ hist' = [ hist EXCEPT !.replied = @ \cup { permissionID } ]
  /\ UNCHANGED << messagePartsById, sentAssistantMessageIds, sentAssistantMessageQueue,
                  messagesFromUI, tuiCurrentAgent, preferredAgent, currentSessionId,
                  lastMessageId, interval, timers, hooks, ticks, remote >>

(***************************************************************************)
(* The state after the plugin is set up: the poller is started, nothing is *)
(* tracked, and Remote holds the greeting the plugin sent.                 *)
(***************************************************************************)
Agent(name, mode, hidden) == [ name |-> name, mode |-> mode, hidden |-> hidden ]

\* client.app.agents(), in the order the Terminal reports
DefaultAgents ==
  << Agent("plan", "primary", FALSE), Agent("explore", "subagent", FALSE),
     Agent("build", "primary", FALSE), Agent("title", "primary", TRUE),
     Agent("docs", "all", FALSE) >>

Greeting == << "OpenCode session started" >>

\* the texts the echo buffer is exercised with, and the entries they leave
EchoTexts ==
  { << "hi" >>, << " ", "hi", "CR", "LF" >>, << "a", "LF", "b" >>, << "a", "CR", "LF", "b" >>,
    << "a", "CR", "CR", "LF", "b" >>, << "x" >>, << "y" >> }

EchoKeys == { normalizeMessage(text) : text \in EchoTexts }

\* nothing observed yet
InitHist ==
  [ finalized |-> {}, owed |-> {}, forwards |-> [ m \in MsgIds |-> 0 ],
    handled |-> {}, decisions |-> [ p \in PermIds |-> 0 ], asked |-> {},
    typed |-> 0, echoed |-> {}, cycleOps |-> 0, cycleRet |-> 0, stepOutcomes |-> {},
    recorded |-> [ k \in EchoKeys |-> 0 ], consumed |-> [ k \in EchoKeys |-> 0 ],
    echoOps |-> 0, lastEcho |-> [ op |-> "", text |-> << >>, found |-> FALSE, before |-> 0 ],
    emptied |-> {}, trackOps |-> 0, lastTrack |-> [ op |-> "", id |-> "", has |-> FALSE, before |-> 0 ],
    ignored |-> {}, replied |-> {}, reported |-> UNDEF,
    lastAssembled |-> [ id |-> "", text |-> << >> ] ]

InitState(agents, sel, tks) ==
  /\ messagePartsById = [ x \in {} |-> EmptyState ]
  /\ sentAssistantMessageIds = {}
  /\ sentAssistantMessageQueue = << >>
  /\ messagesFromUI = << >>
  /\ pendingPermissions = << >>
  /\ tuiCurrentAgent = UNDEF
  /\ preferredAgent = UNDEF
  /\ currentSessionId = UNDEF
  /\ lastMessageId = 1
  /\ interval = TRUE
  /\ timers = 1
  /\ hooks = << >>
  /\ ticks = tks
  /\ remote = << RemoteMessage("AGENT", Greeting, "") >>
  /\ term = [ agents |-> agents, sel |-> sel, prompt |-> << >>, submitted |-> << >>,
              open |-> {} ]
  /\ hist = InitHist

AllIdle == [ t \in 1..MaxTicks |-> IdleTick ]

InitWith(agentLists) == \E agents \in agentLists : InitState(agents, 1, AllIdle)

(***************************************************************************)
(* Terminal to Remote: part events, message updates and their sends.       *)
(***************************************************************************)
FwdTexts == { << >>, << "a" >> }

FwdParts == { TextPart(m, "p1", t) : m \in MsgIds, t \in FwdTexts }

FwdDeltas == { NoDelta, << "b" >> }

FwdMessages ==
  [ id : MsgIds, role : { "assistant" }, completed : BOOLEAN, agent : { UNDEF } ]

InitFwd == InitWith({ DefaultAgents })

NextFwd ==
  \/ \E part \in FwdParts, delta \in FwdDeltas : PartUpdated(part, delta)
  \/ \E message \in FwdMessages : MessageUpdated(message)
  \/ \E i \in 1..MaxHooks, ok \in BOOLEAN : SendReturns(i, ok)

SpecFwd == InitFwd /\ [][NextFwd]_vars

\* every awaited request to Remote comes back, and the Terminal keeps
\* reporting parts and message updates
FairFwd ==
  /\ SpecFwd
  /\ WF_vars(\E i \in 1..MaxHooks, ok \in BOOLEAN : SendReturns(i, ok))
  /\ WF_vars(\E part \in FwdParts, delta \in FwdDeltas : PartUpdated(part, delta))
  /\ WF_vars(\E message \in FwdMessages : MessageUpdated(message))

(***************************************************************************)
(* cycleTuiToAgent on its own: one call, with the agent list, the target,  *)
(* the tracked current agent and the place of the Terminal's selector      *)
(* drawn from small sets.                                                  *)
(***************************************************************************)
Letters ==
  << Agent("A", "primary", FALSE), Agent("B", "primary", FALSE),
     Agent("C", "primary", FALSE), Agent("D", "primary", FALSE) >>

CycleLists ==
  { DefaultAgents, Letters, SubSeq(Letters, 1, 3),
    << Agent("docs", "primary", FALSE), Agent("build", "primary", FALSE) >>,
    << Agent("explore", "subagent", FALSE) >> }

CycleNames == { "plan", "build", "docs", "explore", "A", "B", "C" }

\* the tick is inside cycleTuiToAgent(client, target, current), at its await
\* of client.app.agents()
CycleCall(target, current, sel) ==
  [ AllIdle EXCEPT ![1] = [ IdleTick EXCEPT !.pc = "cyc_agents", !.loc.match = target,
                                            !.loc.cur = current, !.loc.sel0 = sel ] ]

InitCycle ==
  \E agents \in CycleLists, target \in CycleNames, current \in CycleNames \cup { UNDEF } :
    \E sel \in 1..Len(agents) :
      /\ sel = 1 \/ sel <= Len(primaryAgentsOf(agents))
      /\ InitState(agents, sel, CycleCall(target, current, sel))

NextCycle ==
  \/ \E o \in Outcomes : CycAgentsReturns(1, o)
  \/ \E o \in Outcomes : CycStepReturns(1, o)
  \/ \E ok \in BOOLEAN : CtlSendReturns(1, ok)
  \/ CtlStatusReturns(1)

SpecCycle == InitCycle /\ [][NextCycle]_vars

(***************************************************************************)
(* Remote to Terminal: the poller, the prompt path and the chat.message    *)
(* hook, with prompts typed at the Terminal in between.                    *)
(***************************************************************************)
PollTexts == { << "@f" >>, << "q", "<file>" >> }

TypedTexts == { << "t" >> }

InitPoll == InitWith({ DefaultAgents })

NextPoll ==
  \/ \E text \in PollTexts : RemoteUserSends(text)
  \/ \E t \in 1..MaxTicks : TickFires(t)
  \/ \E t \in 1..MaxTicks, ok \in BOOLEAN : FetchReturns(t, ok)
  \/ \E t \in 1..MaxTicks, o \in Outcomes : AppendReturns(t, o)
  \/ \E t \in 1..MaxTicks, o \in Outcomes : AppendSpaceReturns(t, o)
  \/ \E t \in 1..MaxTicks, o \in Outcomes : SubmitReturns(t, o)
  \/ ChatMessage
  \/ \E i \in 1..MaxHooks, ok \in BOOLEAN : SendReturns(i, ok)

SpecPoll == InitPoll /\ [][NextPoll]_vars

(***************************************************************************)
(* The read cursor: polls for one kind of Remote prompt, interleaved with  *)
(* the send of a prompt typed at the Terminal.                             *)
(***************************************************************************)
CursorTexts == { << "hi" >> }

NextCursor ==
  \/ \E text \in CursorTexts : RemoteUserSends(text)
  \/ \E text \in TypedTexts : TermTyped(text)
  \/ \E t \in 1..MaxTicks : TickFires(t)
  \/ \E t \in 1..MaxTicks, ok \in BOOLEAN : FetchReturns(t, ok)
  \/ \E t \in 1..MaxTicks, o \in Outcomes : AppendReturns(t, o)
  \/ \E t \in 1..MaxTicks, o \in Outcomes : SubmitReturns(t, o)
  \/ ChatMessage
  \/ \E i \in 1..MaxHooks, ok \in BOOLEAN : SendReturns(i, ok)

SpecCursor == InitPoll /\ [][NextCursor]_vars

\* the timer keeps firing, every request comes back, and a poll that can
\* succeed again and again does succeed again and again
FairCursor ==
  /\ SpecCursor
  /\ WF_vars(\E t \in 1..MaxTicks : TickFires(t))
  /\ SF_vars(\E t \in 1..MaxTicks : FetchReturns(t, TRUE))
  /\ WF_vars(\E t \in 1..MaxTicks, o \in Outcomes : AppendReturns(t, o))
  /\ WF_vars(\E t \in 1..MaxTicks, o \in Outcomes : SubmitReturns(t, o))
  /\ WF_vars(ChatMessage)
  /\ WF_vars(\E i \in 1..MaxHooks, ok \in BOOLEAN : SendReturns(i, ok))

(***************************************************************************)
(* Permissions: the Terminal asks, the request is sent to Remote, and the  *)
(* dashboard user's replies come in through the poller.                    *)
(***************************************************************************)
Permission(id, metaOptions) == [ id |-> id, sessionID |-> "s1", metaOptions |-> metaOptions ]

PermOptionLists ==
  { MetaOptions("undefined", << >>), MetaOptions("array", << << "Yes" >>, << "No" >> >>) }

Permissions == { Permission(id, metaOptions) : id \in PermIds, metaOptions \in PermOptionLists }

PermTexts == { << "1" >> }

NextPerm ==
  \/ \E permission \in Permissions : PermissionAsked(permission)
  \/ \E permissionID \in PermIds : PermissionReplied(permissionID)
  \/ \E i \in 1..MaxHooks, ok \in BOOLEAN : SendReturns(i, ok)
  \/ \E text \in PermTexts : RemoteUserSends(text)
  \/ \E t \in 1..MaxTicks : TickFires(t)
  \/ \E t \in 1..MaxTicks, ok \in BOOLEAN : FetchReturns(t, ok)
  \/ \E t \in 1..MaxTicks, o \in Outcomes : PermPostReturns(t, o)
  \/ \E t \in 1..MaxTicks : AppendReturns(t, "ok")
  \/ \E t \in 1..MaxTicks : SubmitReturns(t, "ok")
  \/ ChatMessage

SpecPerm == InitPoll /\ [][NextPerm]_vars

(***************************************************************************)
(* Control commands: agent_type commands of the dashboard user come in     *)
(* through the poller and cycle the Terminal's selector.                   *)
(***************************************************************************)
ControlTexts == { << "{control agent_type build}" >>, << "{control agent_type DOCS}" >> }

NextCtl ==
  \/ \E text \in ControlTexts : RemoteUserSends(text)
  \/ \E t \in 1..MaxTicks : TickFires(t)
  \/ \E t \in 1..MaxTicks, ok \in BOOLEAN : FetchReturns(t, ok)
  \/ \E t \in 1..MaxTicks, o \in Outcomes : CtlAgentsReturns(t, o)
  \/ \E t \in 1..MaxTicks, o \in Outcomes : CycAgentsReturns(t, o)
  \/ \E t \in 1..MaxTicks, o \in Outcomes : CycStepReturns(t, o)
  \/ \E t \in 1..MaxTicks, ok \in BOOLEAN : CtlSendReturns(t, ok)
  \/ \E t \in 1..MaxTicks : CtlStatusReturns(t)

SpecCtl == InitPoll /\ [][NextCtl]_vars

(***************************************************************************)
(* Permission replies: requests with the kinds of metadata there are, and  *)
(* the replies of the dashboard user, handled by one poll callback at a    *)
(* time.                                                                   *)
(***************************************************************************)
ReplyMetas ==
  { MetaOptions("undefined", << >>),
    MetaOptions("string", << << "Yes" >> >>),
    MetaOptions("array", << >>),
    MetaOptions("array", << << "proceed" >> >>),
    MetaOptions("array", << << "Yes" >>, << "No" >> >>),
    MetaOptions("array", << << "2" >>, << "1" >> >>),
    MetaOptions("array", << << "a1" >>, << "a2" >>, << "a3" >>, << "a4" >> >>) }

ReplyPermissions ==
  { Permission("perm1", metaOptions) : metaOptions \in ReplyMetas }
    \cup { Permission("perm2", MetaOptions("undefined", << >>)) }

ReplyTexts ==
  { << "2" >>, << "ALLOW" >>, << "nah" >>, << " ", "Yes", "LF" >>, << "allow", " ", "always" >>,
    << "forever" >>, << "n" >>, << "1" >>, << "3" >>, << "a3" >>, << "a4" >>,
    << "2", " ", "files" >>, << "/new" >> }

NextReply ==
  \/ \E permission \in ReplyPermissions : PermissionAsked(permission)
  \/ \E i \in 1..MaxHooks, ok \in BOOLEAN : SendReturns(i, ok)
  \/ \E text \in ReplyTexts : RemoteUserSends(text)
  \/ TickFires(1)
  \/ \E ok \in BOOLEAN : FetchReturns(1, ok)
  \/ \E o \in Outcomes : PermPostReturns(1, o)
  \/ \E o \in Outcomes : SlashExecReturns(1, o)
  \/ AppendReturns(1, "ok")
  \/ SubmitReturns(1, "ok")
  \/ ChatMessage

SpecReply == InitPoll /\ [][NextReply]_vars

(***************************************************************************)
(* Permission requests on their own: the Terminal asks, the request text   *)
(* is sent to Remote, and the Terminal reports requests answered.          *)
(***************************************************************************)
AskPermissions == { Permission(id, metaOptions) : id \in PermIds, metaOptions \in ReplyMetas }

NextAsk ==
  \/ \E permission \in AskPermissions : PermissionAsked(permission)
  \/ \E i \in 1..MaxHooks, ok \in BOOLEAN : SendReturns(i, ok)
  \/ \E permissionID \in PermIds : PermissionReplied(permissionID)

SpecAsk == InitPoll /\ [][NextAsk]_vars

(***************************************************************************)
(* The echo buffer on its own: addUIMessage and isFromUI applied to a      *)
(* buffer that holds the entries of earlier prompts.                       *)
(***************************************************************************)
\* the entry an earlier prompt left at place i
EchoFill(i) == IF i % 3 = 1 THEN << "x" >> ELSE IF i % 3 = 2 THEN << "hi" >> ELSE << "y" >>

EchoFillLens == { 0, 2, MAX_UI_MESSAGES - 1, MAX_UI_MESSAGES }

\* how many entries of the buffer are the text k
Count(buffer, k) == Cardinality({ i \in DOMAIN buffer : buffer[i] = k })

\* addUIMessage(text), as the handler of a Remote prompt calls it
EchoRecord(text) ==
  /\ hist.echoOps < MaxEchoOps
  /\ messagesFromUI' = addUIMessage(messagesFromUI, text)
  /\ hist' = [ hist EXCEPT !.recorded[normalizeMessage(text)] = @ + 1,
                           !.echoOps = @ + 1,
                           !.lastEcho = [ op |-> "record", text |-> text, found |-> FALSE,
                                          before |-> Len(messagesFromUI) ] ]
  /\ UNCHANGED << messagePartsById, sentAssistantMessageIds, sentAssistantMessageQueue,
                  pendingPermissions, tuiCurrentAgent, preferredAgent, currentSessionId,
                  lastMessageId, interval, timers, hooks, ticks, remote, term >>

\* isFromUI(text), as the chat.message hook calls it
EchoConsume(text) ==
  LET r == isFromUI(messagesFromUI, text)
  IN /\ hist.echoOps < MaxEchoOps
     /\ messagesFromUI' = r.buffer
     /\ hist' = [ hist EXCEPT !.consumed[normalizeMessage(text)] = IF r.found THEN @ + 1 ELSE @,
                              !.echoOps = @ + 1,
                              !.lastEcho = [ op |-> "consume", text |-> text, found |-> r.found,
                                             before |-> Len(messagesFromUI) ] ]
     /\ UNCHANGED << messagePartsById, sentAssistantMessageIds, sentAssistantMessageQueue,
                     pendingPermissions, tuiCurrentAgent, preferredAgent, currentSessionId,
                     lastMessageId, interval, timers, hooks, ticks, remote, term >>

InitEcho ==
  \E n \in EchoFillLens :
    /\ messagesFromUI = [ i \in 1..n |-> EchoFill(i) ]
    /\ hist = [ InitHist EXCEPT !.recorded =
                  [ k \in EchoKeys |-> Count([ i \in 1..n |-> EchoFill(i) ], k) ] ]
    /\ messagePartsById = [ x \in {} |-> EmptyState ]
    /\ sentAssistantMessageIds = {}
    /\ sentAssistantMessageQueue = << >>
    /\ pendingPermissions = << >>
    /\ tuiCurrentAgent = UNDEF
    /\ preferredAgent = UNDEF
    /\ currentSessionId = UNDEF
    /\ lastMessageId = 1
    /\ interval = TRUE
    /\ timers = 1
    /\ hooks = << >>
    /\ ticks = AllIdle
    /\ remote = << RemoteMessage("AGENT", Greeting, "") >>
    /\ term = [ agents |-> DefaultAgents, sel |-> 1, prompt |-> << >>, submitted |-> << >>,
                open |-> {} ]

NextEcho ==
  \/ \E text \in EchoTexts : EchoRecord(text)
  \/ \E text \in EchoTexts : EchoConsume(text)

SpecEcho == InitEcho /\ [][NextEcho]_vars

(***************************************************************************)
(* The tracker of sent ids on its own: trackSentMessage and the has test   *)
(* applied to a tracker that holds the ids of earlier messages.  A message *)
(* id is never the empty string: the accumulator keeps no part of a        *)
(* message without an id, so such a message has no text to forward.        *)
(***************************************************************************)
\* the id of the i-th message forwarded earlier
SentId(i) == ToString(i)

TrackFillLens == { 0, 1, MAX_SENT_MESSAGE_IDS - 1, MAX_SENT_MESSAGE_IDS }

TrackIds == { SentId(1), SentId(2), SentId(MAX_SENT_MESSAGE_IDS) } \cup MsgIds

\* trackSentMessage(sentAssistantMessageIds, sentAssistantMessageQueue, messageId)
TrackerTrack(messageId) ==
  LET tracked == trackSentMessage(sentAssistantMessageIds, sentAssistantMessageQueue, messageId)
  IN /\ hist.trackOps < MaxTrackOps
     /\ sentAssistantMessageIds' = tracked.set
     /\ sentAssistantMessageQueue' = tracked.queue
     /\ hist' = [ hist EXCEPT !.trackOps = @ + 1,
                              !.lastTrack = [ op |-> "track", id |-> messageId, has |-> FALSE,
                                              before |-> Len(sentAssistantMessageQueue) ] ]
     /\ UNCHANGED << messagePartsById, messagesFromUI, pendingPermissions, tuiCurrentAgent,
                     preferredAgent, currentSessionId, lastMessageId, interval, timers, hooks, ticks,
                     remote, term >>

\* sentAssistantMessageIds.has(messageId)
TrackerHas(messageId) ==
  /\ hist.trackOps < MaxTrackOps
  /\ hist' = [ hist EXCEPT !.trackOps = @ + 1,
                           !.lastTrack = [ op |-> "has", id |-> messageId,
                                           has |-> messageId \in sentAssistantMessageIds,
                                           before |-> Len(sentAssistantMessageQueue) ] ]
  /\ UNCHANGED << messagePartsById, sentAssistantMessageIds, sentAssistantMessageQueue,
                  messagesFromUI, pendingPermissions, tuiCurrentAgent, preferredAgent,
                  currentSessionId, lastMessageId, interval, timers, hooks, ticks, remote, term >>

InitTrack ==
  \E n \in TrackFillLens :
    /\ sentAssistantMessageIds = { SentId(i) : i \in 1..n }
    /\ sentAssistantMessageQueue = [ i \in 1..n |-> SentId(i) ]
    /\ hist = InitHist
    /\ messagePartsById = [ x \in {} |-> EmptyState ]
    /\ messagesFromUI = << >>
    /\ pendingPermissions = << >>
    /\ tuiCurrentAgent = UNDEF
    /\ preferredAgent = UNDEF
    /\ currentSessionId = UNDEF
    /\ lastMessageId = 1
    /\ interval = TRUE
    /\ timers = 1
    /\ hooks = << >>
    /\ ticks = AllIdle
    /\ remote = << RemoteMessage("AGENT", Greeting, "") >>
    /\ term = [ agents |-> DefaultAgents, sel |-> 1, prompt |-> << >>, submitted |-> << >>,
                open |-> {} ]

NextTrack ==
  \/ \E messageId \in TrackIds : TrackerTrack(messageId)
  \/ \E messageId \in TrackIds : TrackerHas(messageId)

SpecTrack == InitTrack /\ [][NextTrack]_vars

(***************************************************************************)
(* The accumulator on its own: the part events of one assistant message,   *)
(* text and reasoning parts with full texts and deltas, before the message *)
(* is reported completed.                                                  *)
(***************************************************************************)
AccTexts == { << >>, << "Hello" >> }

AccDeltas == { NoDelta, << " world" >> }

AccParts ==
  { TextPart("m1", id, text) : id \in PartIds, text \in AccTexts }
    \cup { ReasoningPart("m1", id, text) : id \in PartIds, text \in AccTexts }

NextAcc == \E part \in AccParts, delta \in AccDeltas : PartUpdated(part, delta)

SpecAcc == InitFwd /\ [][NextAcc]_vars

(***************************************************************************)
(* Assembly: the events of the parts of one assistant message that register *)
(* content, and calls of buildMessageContent between them.                 *)
(***************************************************************************)
AsmTexts == { << >>, << "a" >> }

AsmDeltas == { NoDelta, << "LF" >> }

\* the parts whose events register content
AsmShown ==
  { TextPart("m1", "p1", text) : text \in AsmTexts }
    \cup { TextPart("m1", "p2", << " " >>), FilePart("m1", "p2", "image/", "u1") }
    \cup { ReasoningPart("m1", "p3", text) : text \in { << >>, << "r" >> } }

\* buildMessageContent(messageId): it reads the map with get and builds its
\* result with map, filter and join, which write nothing
Assemble(messageId) ==
  /\ hist' = [ hist EXCEPT !.lastAssembled =
                 [ id |-> messageId, text |-> buildMessageContent(messagePartsById, messageId) ] ]
  /\ UNCHANGED << messagePartsById, sentAssistantMessageIds, sentAssistantMessageQueue,
                  messagesFromUI, pendingPermissions, tuiCurrentAgent, preferredAgent,
                  currentSessionId, lastMessageId, interval, timers, hooks, ticks, remote, term >>

NextAsm ==
  \/ \E part \in AsmShown, delta \in AsmDeltas : PartUpdated(part, delta)
  \/ \E messageId \in MsgIds : Assemble(messageId)

SpecAsm == InitFwd /\ [][NextAsm]_vars

(***************************************************************************)
(* The part kinds: events of parts that register content and of parts that *)
(* register none, tool parts that have not finished included.              *)
(***************************************************************************)
\* the parts whose events register content
DropShown == { TextPart("m1", "p1", << "a" >>), FilePart("m1", "p2", "image/", "u1") }

\* the parts whose events register nothing
DropDropped ==
  { FilePart("m1", "p1", "image/", ""), FilePart("m1", "p1", "text/plain", "u1"),
    FilePart("m2", "p1", "text/plain", "u1"),
    BarePart("m1", "p1", "patch"), BarePart("m2", "p1", "patch"),
    BarePart("m1", "p2", "step-start"), BarePart("m1", "p3", "step-start") }
    \cup { ToolPart("m1", id, "bash", status, << >>, << >>) :
             id \in { "p1", "p3" }, status \in { "pending", "running" } }

NextDrop == \E part \in DropShown \cup DropDropped, delta \in AsmDeltas : PartUpdated(part, delta)

SpecDrop == InitFwd /\ [][NextDrop]_vars

(***************************************************************************)
(* Tool parts: the events of a tool part in each status, between the part  *)
(* events and the completed events of the message around it.               *)
(***************************************************************************)
ToolEvents ==
  { ToolPart("m1", "t1", "bash", "pending", << >>, << >>),
    ToolPart("m1", "t1", "bash", "running", << >>, << >>),
    ToolPart("m1", "t1", "bash", "completed", << "out" >>, << >>),
    ToolPart("m1", "t1", "bash", "error", << >>, << >>) }

ToolTexts ==
  { TextPart("m1", "p2", << " " >>), TextPart("m1", "p2", << "a" >>),
    ReasoningPart("m1", "p1", << "r" >>), ReasoningPart("m1", "p1", << >>) }

ToolMessages ==
  [ id : { "m1" }, role : { "assistant" }, completed : BOOLEAN, agent : { UNDEF } ]

NextTool ==
  \/ \E part \in ToolEvents \cup ToolTexts : PartUpdated(part, NoDelta)
  \/ \E message \in ToolMessages : MessageUpdated(message)
  \/ \E i \in 1..MaxHooks, ok \in BOOLEAN : SendReturns(i, ok)

SpecTool == InitFwd /\ [][NextTool]_vars

(***************************************************************************)
(* Control extraction: texts of the dashboard user that are a control      *)
(* object, hold one, hold malformed JSON or hold none, handled by one poll *)
(* callback at a time.                                                     *)
(***************************************************************************)
ExtractTexts ==
  { << "Agent changed to Reviewer.", " ", "{control agent_type reviewer}" >>,
    << " ", "{control interrupt}", "LF" >>,
    << "{cc {setting interrupt}}" >>,
    << "run", " ", "{cc {setting interrupt}}" >>,
    << "{other}", " ", "{control zoom}", " ", "{control interrupt}" >>,
    << "{type: control}" >>,
    << "see", " ", "{type: control}", " ", "{cc {control zoom}}" >>,
    << "{other}" >>,
    << "hello" >> }

NextExtract ==
  \/ \E text \in ExtractTexts : RemoteUserSends(text)
  \/ TickFires(1)
  \/ \E ok \in BOOLEAN : FetchReturns(1, ok)
  \/ \E o \in Outcomes : CtlAgentsReturns(1, o)
  \/ \E ok \in BOOLEAN : CtlSendReturns(1, ok)
  \/ CtlStatusReturns(1)
  \/ AppendReturns(1, "ok")
  \/ SubmitReturns(1, "ok")
  \/ ChatMessage

SpecExtract == InitPoll /\ [][NextExtract]_vars

(***************************************************************************)
(* The four paths of onMessage: texts that are a control command, a        *)
(* permission reply, a built-in slash command or a prompt, and texts that  *)
(* could be two of them, while a permission is pending or none is.         *)
(***************************************************************************)
RouteTexts ==
  { << "1", " ", "{control zoom}" >>, << "{control agent_type}" >>, << "yes" >>,
    << "/new" >>, << "/new", " ", "x" >>, << "hello" >> }

RoutePermissions ==
  { Permission("perm1", MetaOptions("undefined", << >>)),
    Permission("perm1", MetaOptions("array", << << "/new" >> >>)) }

NextRoute ==
  \/ \E permission \in RoutePermissions : PermissionAsked(permission)
  \/ \E i \in 1..MaxHooks, ok \in BOOLEAN : SendReturns(i, ok)
  \/ \E text \in RouteTexts : RemoteUserSends(text)
  \/ TickFires(1)
  \/ \E ok \in BOOLEAN : FetchReturns(1, ok)
  \/ CtlStatusReturns(1)
  \/ \E o \in Outcomes : PermPostReturns(1, o)
  \/ \E o \in Outcomes : SlashExecReturns(1, o)
  \/ \E o \in Outcomes : AppendReturns(1, o)
  \/ \E o \in Outcomes : AppendSpaceReturns(1, o)
  \/ \E o \in Outcomes : SubmitReturns(1, o)
  \/ ChatMessage

SpecRoute == InitPoll /\ [][NextRoute]_vars

(***************************************************************************)
(* MessagePoller.start and MessagePoller.stop.  The plugin starts the      *)
(* poller when it is constructed and stops it on the dispose events; the   *)
(* callbacks the timer started before run on.  endSession, which the       *)
(* dispose events await after the stop, posts the end of the session to    *)
(* Remote and touches nothing of the plugin.                               *)
(***************************************************************************)
\* start() that sets a timer whether or not one is set
PollerStartAgain ==
  /\ interval' = TRUE
  /\ timers' = timers + 1
  /\ UNCHANGED << messagePartsById, sentAssistantMessageIds, sentAssistantMessageQueue,
                  messagesFromUI, pendingPermissions, tuiCurrentAgent, preferredAgent,
                  currentSessionId, lastMessageId, hooks, ticks, remote, term, hist >>

\* start(): returns at once when interval is set, else setInterval
PollerStart ==
  /\ interval' = TRUE
  /\ timers' = IF interval THEN timers ELSE timers + 1
  /\ UNCHANGED << messagePartsById, sentAssistantMessageIds, sentAssistantMessageQueue,
                  messagesFromUI, pendingPermissions, tuiCurrentAgent, preferredAgent,
                  currentSessionId, lastMessageId, hooks, ticks, remote, term, hist >>

\* stop(): clearInterval(this.interval), which ends the one timer the handle
\* names, and interval = null
PollerStop ==
  /\ interval' = FALSE
  /\ timers' = IF interval THEN timers - 1 ELSE timers
  /\ UNCHANGED << messagePartsById, sentAssistantMessageIds, sentAssistantMessageQueue,
                  messagesFromUI, pendingPermissions, tuiCurrentAgent, preferredAgent,
                  currentSessionId, lastMessageId, hooks, ticks, remote, term, hist >>

DisposeEvents == { "server.instance.disposed", "global.disposed" }

\* the event hook for a dispose event
Disposed(type) ==
  /\ type \in DisposeEvents
  /\ PollerStop

StopTexts == { << "hello" >>, << "/new", " ", "x" >> }

NextStop ==
  \/ \E text \in StopTexts : RemoteUserSends(text)
  \/ \E t \in 1..MaxTicks : TickFires(t)
  \/ \E t \in 1..MaxTicks, ok \in BOOLEAN : FetchReturns(t, ok)
  \/ \E t \in 1..MaxTicks : AppendReturns(t, "ok")
  \/ \E t \in 1..MaxTicks : AppendSpaceReturns(t, "ok")
  \/ \E t \in 1..MaxTicks : SubmitReturns(t, "ok")
  \/ ChatMessage
  \/ \E type \in DisposeEvents : Disposed(type)
  \/ PollerStart

SpecStop == InitPoll /\ [][NextStop]_vars

(***************************************************************************)
(* The selector: agent_type commands handled one at a time, by a single    *)
(* run of the timer callback.                                              *)
(***************************************************************************)
NextSel ==
  \/ \E text \in ControlTexts : RemoteUserSends(text)
  \/ TickFires(1)
  \/ \E ok \in BOOLEAN : FetchReturns(1, ok)
  \/ \E o \in Outcomes : CtlAgentsReturns(1, o)
  \/ \E o \in Outcomes : CycAgentsReturns(1, o)
  \/ \E o \in Outcomes : CycStepReturns(1, o)
  \/ \E ok \in BOOLEAN : CtlSendReturns(1, ok)
  \/ CtlStatusReturns(1)

SpecSel == InitPoll /\ [][NextSel]_vars

(***************************************************************************)
(* Several permissions pending at once, of two sessions: one with labels   *)
(* of its own and one with the default options, and replies that match    *)
(* both, one of them, or none.                                             *)
(***************************************************************************)
ManyPermissions ==
  { [ id |-> "perm1", sessionID |-> "s1",
      metaOptions |-> MetaOptions("array", << << "Yes" >>, << "No" >> >>) ],
    [ id |-> "perm2", sessionID |-> "s2", metaOptions |-> MetaOptions("undefined", << >>) ] }

ManyTexts == { << "1" >>, << "allow", " ", "always" >>, << "No" >>, << "nah" >> }

NextMany ==
  \/ \E permission \in ManyPermissions : PermissionAsked(permission)
  \/ \E i \in 1..MaxHooks, ok \in BOOLEAN : SendReturns(i, ok)
  \/ \E text \in ManyTexts : RemoteUserSends(text)
  \/ TickFires(1)
  \/ \E ok \in BOOLEAN : FetchReturns(1, ok)
  \/ \E o \in Outcomes : PermPostReturns(1, o)
  \/ AppendReturns(1, "ok")
  \/ SubmitReturns(1, "ok")
  \/ ChatMessage

SpecMany == InitPoll /\ [][NextMany]_vars

(***************************************************************************)
(* The echo buffer and the Terminal: a prompt from Remote whose submission *)
(* may fail, and the same text or another typed at the Terminal.           *)
(***************************************************************************)
BufTexts == { << "hi" >> }

BufTyped == { << "hi" >>, << "t" >> }

NextBuf ==
  \/ \E text \in BufTexts : RemoteUserSends(text)
  \/ \E text \in BufTyped : TermTyped(text)
  \/ TickFires(1)
  \/ \E ok \in BOOLEAN : FetchReturns(1, ok)
  \/ \E o \in Outcomes : AppendReturns(1, o)
  \/ \E o \in Outcomes : SubmitReturns(1, o)
  \/ ChatMessage
  \/ \E i \in 1..MaxHooks, ok \in BOOLEAN : SendReturns(i, ok)

SpecBuf == InitPoll /\ [][NextBuf]_vars

(***************************************************************************)
(* The life of the accumulator states: parts of an assistant message, m1,  *)
(* and of a user message, m2, with the message updates of both.  A user    *)
(* message has no completed time.                                          *)
(***************************************************************************)
LifeParts ==
  { TextPart("m1", id, text) : id \in { "p1", "p2" }, text \in { << "a" >>, << "b" >> } }
    \cup { TextPart("m2", "p1", << "q" >>), FilePart("m2", "p2", "text/plain", "u1") }

LifeMessages ==
  { [ id |-> "m1", role |-> "assistant", completed |-> c, agent |-> UNDEF ] : c \in BOOLEAN }
    \cup { [ id |-> "m2", role |-> "user", completed |-> FALSE, agent |-> UNDEF ] }

NextLife ==
  \/ \E part \in LifeParts : PartUpdated(part, NoDelta)
  \/ \E message \in LifeMessages : MessageUpdated(message)
  \/ \E i \in 1..MaxHooks, ok \in BOOLEAN : SendReturns(i, ok)

SpecLife == InitFwd /\ [][NextLife]_vars

\* every awaited request to Remote comes back, and the Terminal reports the
\* last update of every message: the completed one of an assistant message
FairLife ==
  /\ SpecLife
  /\ WF_vars(\E i \in 1..MaxHooks, ok \in BOOLEAN : SendReturns(i, ok))
  /\ \A message \in LifeMessages :
       (message.role = "user" \/ message.completed) => WF_vars(MessageUpdated(message))

(***************************************************************************)
(* agent_type commands against a Terminal whose agent names have capitals, *)
(* with a subagent and a hidden agent in its list.                         *)
(***************************************************************************)
CaseAgents ==
  << Agent("Plan", "primary", FALSE), Agent("explore", "subagent", FALSE),
     Agent("title", "primary", TRUE), Agent("Docs", "all", FALSE) >>

AgentTexts ==
  { << "{control agent_type DOCS}" >>, << "{control agent_type plan}" >>,
    << "{control agent_type nope}" >>, << "{control agent_type explore}" >>,
    << "{control agent_type}" >>, << "{control agent_type 7}" >> }

InitAgent == InitWith({ CaseAgents })

NextAgent ==
  \/ \E text \in AgentTexts : RemoteUserSends(text)
  \/ TickFires(1)
  \/ \E ok \in BOOLEAN : FetchReturns(1, ok)
  \/ \E o \in Outcomes : CtlAgentsReturns(1, o)
  \/ \E o \in Outcomes : CycAgentsReturns(1, o)
  \/ \E o \in Outcomes : CycStepReturns(1, o)
  \/ \E ok \in BOOLEAN : CtlSendReturns(1, ok)
  \/ CtlStatusReturns(1)

SpecAgent == InitAgent /\ [][NextAgent]_vars

(***************************************************************************)
(* Agent tracking: user messages that report the agent they were sent      *)
(* with, an assistant update that names an agent, and agent_type commands  *)
(* from Remote in between.                                                 *)
(***************************************************************************)
SwitchMessages ==
  { [ id |-> "m2", role |-> "user", completed |-> FALSE, agent |-> a ] :
      a \in { UNDEF, "plan", "build" } }
    \cup { [ id |-> "m1", role |-> "assistant", completed |-> FALSE, agent |-> "docs" ] }

SwitchTexts == { << "{control agent_type build}" >> }

NextSwitch ==
  \/ \E message \in SwitchMessages : MessageUpdated(message)
  \/ \E i \in 1..MaxHooks, ok \in BOOLEAN : SendReturns(i, ok)
  \/ \E text \in SwitchTexts : RemoteUserSends(text)
  \/ TickFires(1)
  \/ \E ok \in BOOLEAN : FetchReturns(1, ok)
  \/ \E o \in Outcomes : CtlAgentsReturns(1, o)
  \/ \E o \in Outcomes : CycAgentsReturns(1, o)
  \/ \E o \in Outcomes : CycStepReturns(1, o)
  \/ \E ok \in BOOLEAN : CtlSendReturns(1, ok)
  \/ CtlStatusReturns(1)

SpecSwitch == InitPoll /\ [][NextSwitch]_vars

(***************************************************************************)
(* Slash commands from Remote: built-in commands with and without          *)
(* arguments, in capitals, a command that is not built in, a command whose *)
(* name is a member of every object, and a text that is no command.        *)
(***************************************************************************)
SlashTexts ==
  { << "/new" >>, << " ", "/NEW", "LF" >>, << "/new", " ", "x" >>, << "/share" >>,
    << "/deploy" >>, << "/constructor" >>, << "hello" >> }

NextSlash ==
  \/ \E text \in SlashTexts : RemoteUserSends(text)
  \/ TickFires(1)
  \/ \E ok \in BOOLEAN : FetchReturns(1, ok)
  \/ \E o \in Outcomes : SlashExecReturns(1, o)
  \/ \E o \in Outcomes : AppendReturns(1, o)
  \/ \E o \in Outcomes : AppendSpaceReturns(1, o)
  \/ \E o \in Outcomes : SubmitReturns(1, o)
  \/ ChatMessage

SpecSlash == InitPoll /\ [][NextSlash]_vars

(***************************************************************************)
(* The claims.                                                             *)
(***************************************************************************)

\* C1: the completed event of one assistant message id triggers at most one
\* forward to Remote, whatever the interleaving of part updates, message
\* updates and sends still in flight.
C1_AtMostOneForward == \A m \in MsgIds : hist.forwards[m] <= 1

\* Remote holds the forwarded text of assistant message m
Delivered(m) == \E i \in DOMAIN remote : remote[i].of = m

\* C4: every assistant message observed completed with a non-empty assembled
\* text is eventually delivered to Remote, also when a send for it fails.
C4_AtLeastOnceToRemote == \A m \in MsgIds : [](m \in hist.owed => <>Delivered(m))

\* C10: once an assistant message has been observed completed, no accumulator
\* state for its id exists in any later state.
C10_NoStateAfterFinalization ==
  \A m \in hist.finalized : m \notin DOMAIN messagePartsById


\* the place of the agent called name in the Terminal's list, 0 when the list
\* has no such agent
Pos(list, name) ==
  IF \E k \in DOMAIN list : list[k].name = name
  THEN CHOOSE k \in DOMAIN list :
         list[k].name = name /\ \A l \in DOMAIN list : list[l].name = name => k <= l
  ELSE 0

\* the place the tracked current agent stands for: place 1 when it is undefined
CurPos(list, current) ==
  IF current = UNDEF THEN (IF Len(list) > 0 THEN 1 ELSE 0) ELSE Pos(list, current)

\* cycleTuiToAgent has returned after it had the Terminal's agent list
InCycleTail(tk) == tk.pc \in { "ctl_send", "ctl_status" } /\ tk.loc.listed

C3_NoEchoToRemote ==
  /\ \A t \in 1..MaxTicks :
       ticks[t].pc = "append" =>
         normalizeMessage(ticks[t].content) \in Range(messagesFromUI)
  /\ hist.echoed = {}

\* C5: every USER message with a text that is queued at Remote while the
\* poller runs is eventually passed to the message handler, whatever the
\* interleaving of polls and outgoing sends.
C5_AtLeastOnceToTerminal ==
  \A id \in 1..MaxLog :
    []((id \in DOMAIN remote /\ remote[id].of = "ui" /\ remote[id].content # << >>)
         => <>(id \in hist.handled))

\* C6: at no point are two invocations of the message handler in flight,
\* also across successive poll ticks.
C6_OneHandlerAtATime ==
  Cardinality({ t \in 1..MaxTicks : InHandler(ticks[t]) }) <= 1


\* C2: for every permission id at most one decision is ever issued to the
\* Terminal's reply-to-permission operation, whatever the interleaving of
\* Remote replies, poll ticks and Terminal events.
C2_AtMostOneDecision == \A p \in PermIds : hist.decisions[p] <= 1


\* the callback is inside handleControlCommand
InControl(tk) ==
  tk.pc \in { "ctl_agents", "cyc_agents", "cyc_step", "int_exec", "ctl_send", "ctl_status" }

\* C7: the cycle loop of one agent_type command runs all its steps before
\* any other control command is processed; the agent.cycle operations of two
\* loops never interleave.
C7_CycleLoopsNeverInterleave ==
  \A t1, t2 \in 1..MaxTicks :
    (t1 # t2 /\ ticks[t1].pc = "cyc_step") => ~InControl(ticks[t2])

\* C11: when a permission-replied notice for id p is handled, the pending
\* entry for p is removed, no decision is issued to the Terminal (no handler
\* of the poller moves and no decision is counted), and the pending entries
\* of all other permission ids are unchanged, in their order.
C11_RepliedRemovesOnlyItsEntry ==
  [][\A p \in PermIds :
       PermissionReplied(p) =>
         /\ \A i \in DOMAIN pendingPermissions' : pendingPermissions'[i].id # p
         /\ pendingPermissions' = SelectSeq(pendingPermissions, LAMBDA e : e.id # p)
         /\ hist'.decisions = hist.decisions
         /\ ticks' = ticks /\ hooks' = hooks]_vars

\* the notice for perm1 has removed its entry, which nothing else had
\* touched, while the entry of perm2 is still pending
C11_Witness ==
  /\ "perm1" \in hist.asked /\ "perm1" \notin term.open
  /\ hooks = << >>
  /\ hist.decisions["perm1"] = 0
  /\ \A i \in DOMAIN pendingPermissions : pendingPermissions[i].id # "perm1"
  /\ \E i \in DOMAIN pendingPermissions : pendingPermissions[i].id = "perm2"

\* a handler invocation of poll callback t starts in this step
HandlerStarts(t) ==
  InHandler(ticks'[t]) /\ (ticks[t].pc = "fetch" \/ ticks'[t].idx # ticks[t].idx)

\* the options of the entry of permission id in the pending list pp
OptionsOf(pp, id) == (CHOOSE e \in Range(pp) : e.id = id).options

\* the matching policy as stated: the label rule, the integer rule for a
\* reply that is an integer, the keyword classes; "null" when no rule matches
StatedReply(reply, options) ==
  LET r == Lower(Trim(reply))
      hits == { i \in DOMAIN options : Lower(options[i].label) = r }
      first == CHOOSE i \in hits : \A j \in hits : i <= j
      k == IF Len(r) = 1 THEN ParseInt(r) ELSE -1
  IN IF hits # {} THEN options[first].response
     ELSE IF k >= 1 /\ k <= Len(options) THEN options[k].response
     ELSE IF r \in { << "allow" >>, << "yes" >>, << "y" >>, << "ok" >>, << "approve" >>, << "1" >> }
          THEN "once"
     ELSE IF r \in { << "always" >>, << "forever" >>, << "permanent" >>, << "2" >> }
          THEN "always"
     ELSE IF r \in { << "reject" >>, << "no" >>, << "n" >>, << "deny" >>, << "cancel" >>, << "3" >> }
          THEN "reject"
     ELSE "null"

\* C12: the decision issued for a reply is the one the three rules give, in
\* their order, first match wins: (1) case-insensitive exact match of the
\* reply against an option label, (2) the reply is an integer k with
\* 1 <= k <= |options| and selects option k, (3) the keyword classes.  With
\* the default options '2' gives always and 'ALLOW' gives once; a label that
\* is a bare digit takes precedence over the numeric match.
C12_ThreeRulesInOrder ==
  [][/\ parsePermissionReply(<< "2" >>, DEFAULT_PERMISSION_OPTIONS) = "always"
     /\ parsePermissionReply(<< "ALLOW" >>, DEFAULT_PERMISSION_OPTIONS) = "once"
     /\ \A t \in 1..MaxTicks :
          (HandlerStarts(t) /\ ticks'[t].pc = "perm_post") =>
            LET tk == ticks'[t]
                stated == StatedReply(tk.content, OptionsOf(pendingPermissions', tk.loc.perm))
            IN stated # "null" /\ tk.loc.matched = stated]_vars

\* C13: a Remote text that matches no option of any pending permission
\* (e.g. 'nah') is not correlated: every PendingPermission stays in place,
\* no decision is issued, and the text goes down the ordinary path, the
\* slash command or the prompt submission.
C13_NoMatchGoesOrdinaryPath ==
  [][\A t \in 1..MaxTicks :
       (/\ HandlerStarts(t)
        /\ extractControlPayload(ticks'[t].content) = NoPayload
        /\ \A i \in DOMAIN pendingPermissions' :
             StatedReply(ticks'[t].content, pendingPermissions'[i].options) = "null")
       => /\ ticks'[t].pc \in { "append", "slash_exec", "slash_share" }
          /\ ticks'[t].loc.perm = ""
          /\ hist'.decisions = hist.decisions
          /\ ticks[t].pc = "fetch" => pendingPermissions' = pendingPermissions]_vars

\* the options the construction rule gives for a metadata value
StatedOptions(metaOptions) ==
  LET decisions == << "once", "always", "reject" >>
      labels == metaOptions.items
      n == IF Len(labels) < 3 THEN Len(labels) ELSE 3
  IN IF metaOptions.kind = "array" /\ labels # << >>
     THEN [ i \in 1..n |-> [ label |-> labels[i], response |-> decisions[i] ] ]
     ELSE << [ label |-> << "Allow" >>, response |-> "once" ],
             [ label |-> << "Allow", " ", "always" >>, response |-> "always" ],
             [ label |-> << "Reject" >>, response |-> "reject" ] >>

\* C14: option construction.  A non-empty list of labels in the metadata
\* gives its first three labels paired in place with once, always, reject,
\* the labels beyond the third ignored; a metadata that is absent, not a
\* list or an empty list gives Allow/once, Allow always/always,
\* Reject/reject.  The options stored with the pending permission are the
\* ones of the request text sent to Remote.
C14_OptionConstruction ==
  /\ [][\A permission \in AskPermissions :
          PermissionAsked(permission) =>
            LET h == hooks'[Len(hooks')]
            IN /\ h.aux.options = StatedOptions(permission.metaOptions)
               /\ h.content = formatPermissionRequest(permission, StatedOptions(permission.metaOptions))]_vars
  /\ [][\A i \in 1..MaxHooks, ok \in BOOLEAN :
          (SendReturns(i, ok) /\ hooks[i].kind = "asked") =>
            /\ OptionsOf(pendingPermissions', hooks[i].id) = hooks[i].aux.options
            /\ ok => remote'[Len(remote')].content = hooks[i].content]_vars
  /\ [](\A i \in DOMAIN pendingPermissions :
          LET e == pendingPermissions[i]
          IN e.vicoaMessageId # 0 =>
               remote[e.vicoaMessageId].content = formatPermissionRequest(e, e.options))

\* a request whose metadata lists four labels is pending with three options
\* and its text is at Remote
C14_Witness ==
  \E i \in DOMAIN pendingPermissions :
    /\ pendingPermissions[i].vicoaMessageId # 0
    /\ Len(pendingPermissions[i].options) = 3
    /\ pendingPermissions[i].options[3] = [ label |-> << "a3" >>, response |-> "reject" ]

\* C15: echo suppression is one-shot.  A successful isFromUI removes exactly
\* one instance of the matching entry and leaves the others, so the number of
\* successful consumptions of a text never exceeds the number of times it
\* was recorded (record('hi'), consume('hi') is true, a second consume('hi')
\* is false); a failed consumption leaves the buffer unchanged.
C15_OneShotConsumption ==
  /\ [](\A k \in EchoKeys : hist.consumed[k] <= hist.recorded[k])
  /\ [][\A text \in EchoTexts :
          EchoConsume(text) =>
            LET k == normalizeMessage(text)
            IN IF Count(messagesFromUI, k) > 0
               THEN /\ hist'.lastEcho.found
                    /\ Len(messagesFromUI') = Len(messagesFromUI) - 1
                    /\ \A e \in EchoKeys :
                         Count(messagesFromUI', e) =
                           Count(messagesFromUI, e) - (IF e = k THEN 1 ELSE 0)
               ELSE /\ ~hist'.lastEcho.found
                    /\ messagesFromUI' = messagesFromUI]_vars
  /\ [](LET b1 == addUIMessage(<< >>, << "hi" >>)
            c1 == isFromUI(b1, << "hi" >>)
            c2 == isFromUI(c1.buffer, << "hi" >>)
        IN c1.found /\ ~c2.found /\ c2.buffer = c1.buffer)

\* 'hi' was recorded once and consumed once, and the consumption of 'hi'
\* that followed has failed
C15_Witness ==
  /\ hist.recorded[<< "hi" >>] = 1 /\ hist.consumed[<< "hi" >>] = 1
  /\ hist.lastEcho.op = "consume" /\ hist.lastEcho.text = << "hi" >>
  /\ ~hist.lastEcho.found
  /\ hist.echoOps = 3

\* C16: the echo buffer never holds more than 50 entries after a record; a
\* record that would make it 51 evicts exactly the 40 oldest entries in one
\* step and leaves the 11 most recent in their order.
C16_BufferBound ==
  /\ [](Len(messagesFromUI) <= 50)
  /\ [][\A text \in EchoTexts :
          EchoRecord(text) =>
            IF Len(messagesFromUI) = 50
            THEN /\ Len(messagesFromUI') = 11
                 /\ messagesFromUI' =
                      SubSeq(messagesFromUI, 41, 50) \o << normalizeMessage(text) >>
            ELSE messagesFromUI' = Append(messagesFromUI, normalizeMessage(text))]_vars

\* the record that found 50 entries has left 11
C16_Witness ==
  /\ hist.lastEcho.op = "record" /\ hist.lastEcho.before = 50
  /\ Len(messagesFromUI) = 11

\* the texts that differ from text by one line ending, CRLF for LF or LF for
\* CRLF, and by one blank before or behind
LineEndingVariants(text) ==
  { SubSeq(text, 1, i - 1) \o << "LF" >> \o SubSeq(text, i + 2, Len(text)) :
      i \in { j \in 1..(Len(text) - 1) : text[j] = "CR" /\ text[j + 1] = "LF" } }
  \cup { SubSeq(text, 1, i - 1) \o << "CR", "LF" >> \o SubSeq(text, i + 1, Len(text)) :
      i \in { j \in 1..Len(text) : text[j] = "LF" /\ (j = 1 \/ text[j - 1] # "CR") } }
  \cup { << " " >> \o text, text \o << " " >>, text \o << "LF" >> }

\* C17: normalization is the same on record and on consume: two texts that
\* differ only by CRLF versus LF line endings and by leading or trailing
\* whitespace are the same entry, and normalization is idempotent.
C17_NormalizationIdentical ==
  /\ [](\A i \in DOMAIN messagesFromUI :
          normalizeMessage(messagesFromUI[i]) = messagesFromUI[i])
  /\ [][\A text \in EchoTexts :
          EchoRecord(text) =>
            \A other \in LineEndingVariants(text) :
              /\ normalizeMessage(other) = normalizeMessage(text)
              /\ isFromUI(messagesFromUI', other).found]_vars

\* C18: after any sequence of track operations the set and the queue hold
\* exactly the same ids, the queue has no duplicates, and both hold at most
\* 200 ids; track of an id already present changes nothing; exceeding 200
\* removes the single oldest id from both; has never mutates either.
C18_TrackerInvariant ==
  /\ [](/\ Range(sentAssistantMessageQueue) = sentAssistantMessageIds
        /\ Cardinality(sentAssistantMessageIds) = Len(sentAssistantMessageQueue)
        /\ Len(sentAssistantMessageQueue) <= 200)
  /\ [][\A id \in TrackIds :
          TrackerTrack(id) =>
            IF id \in sentAssistantMessageIds
            THEN /\ sentAssistantMessageIds' = sentAssistantMessageIds
                 /\ sentAssistantMessageQueue' = sentAssistantMessageQueue
            ELSE IF Len(sentAssistantMessageQueue) = 200
            THEN /\ sentAssistantMessageQueue' = Tail(sentAssistantMessageQueue) \o << id >>
                 /\ sentAssistantMessageIds' =
                      (sentAssistantMessageIds \ { Head(sentAssistantMessageQueue) }) \cup { id }
            ELSE /\ sentAssistantMessageQueue' = Append(sentAssistantMessageQueue, id)
                 /\ sentAssistantMessageIds' = sentAssistantMessageIds \cup { id }]_vars
  /\ [][\A id \in TrackIds :
          TrackerHas(id) =>
            /\ sentAssistantMessageIds' = sentAssistantMessageIds
            /\ sentAssistantMessageQueue' = sentAssistantMessageQueue
            /\ hist'.lastTrack.has = (id \in sentAssistantMessageIds)]_vars

\* the track of a new id that found 200 ids has evicted the oldest one
C18_Witness ==
  /\ hist.lastTrack.op = "track" /\ hist.lastTrack.before = 200
  /\ hist.lastTrack.id = "m1"
  /\ Len(sentAssistantMessageQueue) = 200
  /\ "m1" \in sentAssistantMessageIds
  /\ SentId(1) \notin sentAssistantMessageIds

\* the order of the part ids of message m, << >> when it has no state
OrderOf(mp, m) == IF m \in DOMAIN mp THEN mp[m].order ELSE << >>

\* the text accumulated for part id of message m, << >> when there is none
TextOf(mp, m, id) ==
  IF m \in DOMAIN mp /\ id \in DOMAIN mp[m].textByPartId THEN mp[m].textByPartId[id] ELSE << >>

\* C19: parts assemble in first-seen order whatever the order of the later
\* updates of their content: a part id keeps the place of its first event; a
\* part whose content becomes empty contributes nothing but stays in the
\* order, and is back at its place when it has content again; no part id
\* occurs twice in the order.
C19_FirstSeenOrder ==
  /\ [](\A m \in DOMAIN messagePartsById :
          LET st == messagePartsById[m]
              shown == SelectSeq(st.order,
                                 LAMBDA id : id \in DOMAIN st.parts /\ Trim(st.parts[id]) # << >>)
          IN /\ \A i, j \in DOMAIN st.order : st.order[i] = st.order[j] => i = j
             /\ DOMAIN st.parts \subseteq Range(st.order)
             /\ buildMessageContent(messagePartsById, m) =
                  Trim(Join([ i \in DOMAIN shown |-> st.parts[shown[i]] ], << "LF", "LF" >>)))
  /\ [][\A part \in AccParts, delta \in AccDeltas :
          PartUpdated(part, delta) =>
            LET before == OrderOf(messagePartsById, part.messageID)
                after == OrderOf(messagePartsById', part.messageID)
            IN /\ after = IF part.id \in Range(before) THEN before ELSE Append(before, part.id)
               /\ (part.type = "reasoning" /\ part.text = << >>) =>
                    part.id \notin DOMAIN messagePartsById'[part.messageID].parts]_vars

\* part p1, seen first, lost its content and has content again: it is
\* assembled before p2
C19_Witness ==
  /\ << "m1", "p1" >> \in hist.emptied
  /\ "m1" \in DOMAIN messagePartsById
  /\ messagePartsById["m1"].order = << "p1", "p2" >>
  /\ DOMAIN messagePartsById["m1"].parts = { "p1", "p2" }
  /\ buildMessageContent(messagePartsById, "m1") =
       messagePartsById["m1"].parts["p1"] \o << "LF", "LF" >> \o messagePartsById["m1"].parts["p2"]

\* C20 (as stated): an event of a text part that supplies a delta appends the
\* delta to the text accumulated for the part id; an event without a delta
\* replaces the accumulated text with the event's full text.
C20_DeltaAppendsElseReplaces ==
  [][\A part \in AccParts, delta \in AccDeltas :
       (PartUpdated(part, delta) /\ part.type = "text") =>
         TextOf(messagePartsById', part.messageID, part.id) =
           IF delta # NoDelta
           THEN TextOf(messagePartsById, part.messageID, part.id) \o delta
           ELSE part.text]_vars

\* C20 (amended): an event of a text part that supplies a delta appends the
\* delta to the text accumulated for the part id ('Hel','lo' give 'Hello';
\* 'Hello' then ' world' gives 'Hello world'); an event without a delta
\* replaces the accumulated text with the event's full text when that text
\* is not empty, and leaves the accumulated text as it is when it is empty.
C20_DeltaAppendsElseReplacesNonEmpty ==
  /\ [][\A part \in AccParts, delta \in AccDeltas :
          (PartUpdated(part, delta) /\ part.type = "text") =>
            /\ TextOf(messagePartsById', part.messageID, part.id) =
                 IF delta # NoDelta
                 THEN TextOf(messagePartsById, part.messageID, part.id) \o delta
                 ELSE IF part.text # << >> THEN part.text
                 ELSE TextOf(messagePartsById, part.messageID, part.id)
            /\ HasContent(messagePartsById', part) =>
                 messagePartsById'[part.messageID].parts[part.id] =
                   TextOf(messagePartsById', part.messageID, part.id)]_vars
  /\ [](LET e == [ x \in {} |-> EmptyState ]
            a1 == handlePartUpdate(e, TextPart("m1", "p1", << >>), << "Hel" >>)
            a2 == handlePartUpdate(a1, TextPart("m1", "p1", << >>), << "lo" >>)
            b1 == handlePartUpdate(e, TextPart("m1", "p1", << "Hello" >>), NoDelta)
            b2 == handlePartUpdate(b1, TextPart("m1", "p1", << "Hello" >>), << " world" >>)
            b3 == handlePartUpdate(b2, TextPart("m1", "p1", << "Hi" >>), NoDelta)
        IN /\ TextOf(a2, "m1", "p1") = << "Hel", "lo" >>
           /\ TextOf(b2, "m1", "p1") = << "Hello", " world" >>
           /\ TextOf(b3, "m1", "p1") = << "Hi" >>)

\* the full text 'Hello' and then the delta ' world' have given 'Hello world'
\* for part p1, and the full text 'Hello' is the text of part p2
C20_Witness ==
  /\ TextOf(messagePartsById, "m1", "p1") = << "Hello", " world" >>
  /\ TextOf(messagePartsById, "m1", "p2") = << "Hello" >>
  /\ messagePartsById["m1"].parts["p1"] = << "Hello", " world" >>

\* the assembly as it is stated: the rendered parts that are not blank, in
\* the order of the part ids, joined by a blank line and trimmed
StatedAssembly(mp, m) ==
  IF m \notin DOMAIN mp THEN << >>
  ELSE LET st == mp[m]
           shown == SelectSeq(st.order,
                              LAMBDA id : id \in DOMAIN st.parts /\ Trim(st.parts[id]) # << >>)
       IN Trim(Join([ i \in DOMAIN shown |-> st.parts[shown[i]] ], << "LF", "LF" >>))

\* C21: assemble is a pure read.  It returns the rendered parts that are
\* non-empty after trimming, in order, joined by a blank line and trimmed;
\* it does not change the accumulator state; a second call without an event
\* in between returns the same string; for an unknown message id it returns
\* the empty string.
C21_AssembleIsPureRead ==
  [][\A m \in MsgIds :
       Assemble(m) =>
         /\ hist'.lastAssembled.text = StatedAssembly(messagePartsById, m)
         /\ messagePartsById' = messagePartsById
         /\ buildMessageContent(messagePartsById', m) = hist'.lastAssembled.text
         /\ m \notin DOMAIN messagePartsById =>
              hist'.lastAssembled.text = << >> /\ m \notin DOMAIN messagePartsById']_vars

\* the text part 'a', a blank text part and a reasoning part, in this order,
\* were assembled to 'a', a blank line and the reasoning
C21_Witness ==
  /\ "m1" \in DOMAIN messagePartsById
  /\ messagePartsById["m1"].order = << "p1", "p2", "p3" >>
  /\ DOMAIN messagePartsById["m1"].parts = { "p1", "p2", "p3" }
  /\ messagePartsById["m1"].parts["p2"] = << " " >>
  /\ hist.lastAssembled = [ id |-> "m1", text |-> << "a", "LF", "LF", "[Thinking: ", "r", "]" >> ]

\* the rendered parts of message m, by part id
PartsOf(mp, m) == IF m \in DOMAIN mp THEN mp[m].parts ELSE EmptyMap

\* C22: only text parts, image file parts with a location and reasoning
\* parts can contribute to a message's assembled text: a non-image file
\* part, a patch part, a tool part or a part of unknown kind never changes
\* the order or the rendered parts of any message.
C22_OnlyThreeKindsContribute ==
  /\ [][\A part \in DropDropped, delta \in AsmDeltas :
          PartUpdated(part, delta) =>
            \A m \in MsgIds :
              /\ OrderOf(messagePartsById', m) = OrderOf(messagePartsById, m)
              /\ PartsOf(messagePartsById', m) = PartsOf(messagePartsById, m)
              /\ buildMessageContent(messagePartsById', m) =
                   buildMessageContent(messagePartsById, m)]_vars
  /\ [][(\E m \in MsgIds :
           \/ OrderOf(messagePartsById', m) # OrderOf(messagePartsById, m)
           \/ PartsOf(messagePartsById', m) # PartsOf(messagePartsById, m))
        => \E part \in DropShown, delta \in AsmDeltas : PartUpdated(part, delta)]_vars

\* events of a file part that is no image, of a patch part, of a tool part
\* and of a part of unknown kind were handled, and message m1 holds its text
\* and its image as before
C22_Witness ==
  /\ hist.ignored = { "file", "patch", "step-start", "tool" }
  /\ "m1" \in DOMAIN messagePartsById /\ "m2" \in DOMAIN messagePartsById
  /\ messagePartsById["m1"].order = << "p1", "p2" >>
  /\ messagePartsById["m2"].order = << >>
  /\ buildMessageContent(messagePartsById, "m1") =
       << "a", "LF", "LF", "![image](", "u1", ")" >>

\* the sends awaited by the event hook that carry a tool part
ToolSends(hs) == SelectSeq(hs, LAMBDA h : h.kind = "tool")

\* C23: a tool part update produces a standalone Remote message if and only
\* if its status is completed or error; pending and running updates send
\* nothing; the emission neither waits for nor alters the accumulator state
\* or the completion of the message around it.
C23_ToolPartsFlushOnTerminalStatus ==
  /\ [][\A part \in ToolEvents :
          PartUpdated(part, NoDelta) =>
            /\ IF part.status \in { "completed", "error" }
               THEN /\ Len(hooks') = Len(hooks) + 1
                    /\ hooks'[Len(hooks')].kind = "tool"
                    /\ hooks'[Len(hooks')].content # << >>
               ELSE hooks' = hooks
            /\ messagePartsById' = messagePartsById
            /\ sentAssistantMessageIds' = sentAssistantMessageIds
            /\ hist'.finalized = hist.finalized /\ hist'.forwards = hist.forwards]_vars
  /\ [][Len(ToolSends(hooks')) > Len(ToolSends(hooks)) =>
          \E part \in ToolEvents :
            part.status \in { "completed", "error" } /\ PartUpdated(part, NoDelta)]_vars
  /\ [][\A i \in 1..MaxHooks, ok \in BOOLEAN :
          (SendReturns(i, ok) /\ hooks[i].kind = "tool") =>
            /\ messagePartsById' = messagePartsById
            /\ sentAssistantMessageIds' = sentAssistantMessageIds
            /\ sentAssistantMessageQueue' = sentAssistantMessageQueue
            /\ ok => remote' = Append(remote, RemoteMessage("AGENT", hooks[i].content, ""))]_vars
  /\ [][\A message \in ToolMessages :
          (MessageUpdated(message) /\ message.completed) =>
            /\ ToolSends(hooks') = ToolSends(hooks)
            /\ hist'.owed = hist.owed \cup
                 (IF StatedAssembly(messagePartsById, message.id) # << >>
                  THEN { message.id } ELSE {})]_vars

\* the result of the tool is at Remote as a message of its own while the
\* message around it is not completed and holds its text
C23_Witness ==
  /\ \E i \in DOMAIN remote :
       /\ remote[i].content = << "Using tool: ", "bash", "LF", "Result: ", "out" >>
       /\ remote[i].of = ""
  /\ "m1" \notin hist.finalized
  /\ "m1" \in DOMAIN messagePartsById
  /\ buildMessageContent(messagePartsById, "m1") = << "[Thinking: ", "r", "]", "LF", "LF", "a" >>
  /\ hist.ignored = { "tool" }

\* C24: a completed assistant message whose assembly has no non-empty part
\* is never forwarded to Remote: no send is issued for it and its id is not
\* recorded as sent, while its accumulator state is still discarded.
C24_EmptyAssemblyNotForwarded ==
  /\ [][\A message \in ToolMessages :
          (/\ MessageUpdated(message)
           /\ message.role = "assistant" /\ message.completed
           /\ StatedAssembly(messagePartsById, message.id) = << >>)
          => /\ hooks' = hooks
             /\ remote' = remote
             /\ sentAssistantMessageIds' = sentAssistantMessageIds
             /\ sentAssistantMessageQueue' = sentAssistantMessageQueue
             /\ hist'.forwards = hist.forwards
             /\ message.id \notin DOMAIN messagePartsById']_vars
  /\ [](\A i \in DOMAIN hooks : hooks[i].kind = "forward" => Trim(hooks[i].content) # << >>)
  /\ [](\A i \in DOMAIN remote : remote[i].of \in MsgIds => Trim(remote[i].content) # << >>)

\* message m1, whose reasoning part lost its content and whose text part is
\* blank, was reported completed: nothing was sent for it, its id is not
\* recorded and its state is gone
C24_Witness ==
  /\ "m1" \in hist.finalized /\ "m1" \notin hist.owed
  /\ << "m1", "p1" >> \in hist.emptied
  /\ hist.forwards["m1"] = 0
  /\ "m1" \notin sentAssistantMessageIds
  /\ "m1" \notin DOMAIN messagePartsById
  /\ hooks = << >>

\* the token is JSON for an object
IsJsonObject(tok) == tok \in DOMAIN JsonTable \cup DOMAIN WrappedTable

\* the object of the token marks a control payload: it carries a
\* control_command field or its type is 'control'
MarksControl(tok) ==
  \/ tok \in DOMAIN WrappedTable
  \/ tok \in DOMAIN JsonTable /\ JsonTable[tok].type = "control"

\* the payload the object of the token stands for
MarkedPayload(tok) ==
  IF tok \in DOMAIN WrappedTable THEN JsonTable[WrappedTable[tok]] ELSE JsonTable[tok]

\* the single-level objects of a text, in their order: an object without an
\* object inside is one, and so is the object inside an object
SingleLevel(trimmed) ==
  [ i \in DOMAIN trimmed |->
      IF trimmed[i] \in DOMAIN WrappedTable THEN WrappedTable[trimmed[i]] ELSE trimmed[i] ]

\* control extraction as it is stated; NoPayload is null
StatedPayload(text) ==
  LET trimmed == Trim(text)
      objects == SingleLevel(trimmed)
      hits == { i \in DOMAIN objects : IsJsonObject(objects[i]) /\ MarksControl(objects[i]) }
  IN IF Len(trimmed) = 1 /\ IsJsonObject(trimmed[1]) /\ MarksControl(trimmed[1])
     THEN MarkedPayload(trimmed[1])
     ELSE IF hits # {}
     THEN MarkedPayload(objects[CHOOSE i \in hits : \A j \in hits : i <= j])
     ELSE NoPayload

\* C25: control extraction returns a payload when the whole trimmed text is
\* JSON that carries a control_command field or has type 'control', or else
\* when a single-level {...} substring parses to such an object, the first
\* such candidate winning ('Agent changed to Reviewer. {"type":"control",
\* "setting":"agent_type","value":"reviewer"}' gives agent_type/reviewer); in
\* every other case, malformed JSON included, it returns null without
\* raising, and the text is handled as an ordinary message.
C25_ControlExtraction ==
  /\ [](/\ \A text \in ExtractTexts : extractControlPayload(text) = StatedPayload(text)
        /\ extractControlPayload(<< "Agent changed to Reviewer.", " ",
                                    "{control agent_type reviewer}" >>)
             = Json("control", "agent_type", "reviewer")
        /\ extractControlPayload(<< "{type: control}" >>) = NoPayload)
  /\ [][(HandlerStarts(1) /\ ticks'[1].content \in ExtractTexts) =>
          IF StatedPayload(ticks'[1].content) # NoPayload
          THEN /\ ticks'[1].pc \in { "ctl_agents", "ctl_send", "ctl_status" }
               /\ StatedPayload(ticks'[1].content).setting = "agent_type" =>
                    ticks'[1].loc.nextAgent = StatedPayload(ticks'[1].content).value
               /\ messagesFromUI' = messagesFromUI
          ELSE /\ ticks'[1].pc = "append"
               /\ messagesFromUI' = Append(messagesFromUI, normalizeMessage(ticks'[1].content))]_vars

\* the handler is in the agent_type command for 'reviewer' that it took from
\* the text 'Agent changed to Reviewer. {...}'
C25_Witness ==
  /\ ticks[1].pc = "ctl_agents"
  /\ ticks[1].content = << "Agent changed to Reviewer.", " ", "{control agent_type reviewer}" >>
  /\ ticks[1].loc.nextAgent = "reviewer"

\* the text holds a control payload whose setting is none of the known ones
UnknownSetting(text) ==
  /\ StatedPayload(text) # NoPayload
  /\ StatedPayload(text).setting \notin { "interrupt", "agent_type" }

\* the texts the Terminal was given as a prompt or holds in its prompt buffer
PromptTokens ==
  Range(term.prompt) \cup UNION { Range(term.submitted[i].text) : i \in DOMAIN term.submitted }

\* C26: a control payload with an unrecognized setting is still reported as
\* a control command: the handler reports it handled (the callback goes on
\* to its status update and returns), the text is never submitted to the
\* Terminal as a prompt nor matched as a permission reply, and no Terminal
\* action and no change to the tracked or preferred agent results.
C26_UnknownSettingIsHandled ==
  /\ [][(HandlerStarts(1) /\ UnknownSetting(ticks'[1].content)) =>
          /\ ticks'[1].pc = "ctl_status"
          /\ ticks'[1].loc.perm = "" /\ hist'.decisions = hist.decisions
          /\ messagesFromUI' = messagesFromUI
          /\ tuiCurrentAgent' = tuiCurrentAgent /\ preferredAgent' = preferredAgent]_vars
  /\ [][(CtlStatusReturns(1) /\ UnknownSetting(ticks[1].content)) =>
          /\ term' = term
          /\ pendingPermissions' = pendingPermissions
          /\ tuiCurrentAgent' = tuiCurrentAgent /\ preferredAgent' = preferredAgent
          /\ ticks'[1].pc = "idle" \/ ticks'[1].idx > ticks[1].idx]_vars
  /\ [](/\ UnknownSetting(ticks[1].content) => ticks[1].pc = "ctl_status"
        /\ "{control zoom}" \notin PromptTokens
        /\ \A i \in DOMAIN messagesFromUI : "{control zoom}" \notin Range(messagesFromUI[i])
        /\ tuiCurrentAgent = UNDEF /\ preferredAgent = UNDEF)

\* the handler took the text '1 {...zoom...}' for a control command while
\* perm1 is pending with the default options: no decision was issued
C26_Witness ==
  /\ ticks[1].pc = "ctl_status"
  /\ ticks[1].content = << "1", " ", "{control zoom}" >>
  /\ \E i \in DOMAIN pendingPermissions :
       /\ pendingPermissions[i].id = "perm1"
       /\ parsePermissionReply(ticks[1].content, pendingPermissions[i].options) = "once"
  /\ hist.decisions["perm1"] = 0

\* the path a handler invocation is on
PathOf(tk) ==
  CASE tk.pc \in { "ctl_agents", "cyc_agents", "cyc_step", "int_exec", "ctl_send", "ctl_status" }
         -> "control"
    [] tk.pc = "perm_post" -> "permission"
    [] tk.pc \in { "slash_share", "slash_send", "slash_exec" } -> "slash"
    [] tk.pc \in { "append", "append_space", "submit" } -> "prompt"
    [] OTHER -> "none"

\* the path the order of the four tests gives for a text, with the pending
\* permissions the handler finds
StatedPath(text, pp) ==
  IF StatedPayload(text) # NoPayload THEN "control"
  ELSE IF \E i \in DOMAIN pp : parsePermissionReply(text, pp[i].options) # "null"
       THEN "permission"
  ELSE IF SlashDirect(text) # UNDEF THEN "slash"
  ELSE "prompt"

\* C29: each text delivered from Remote is handled by exactly one of four
\* paths, tried in this order: control command, permission reply, built-in
\* slash command, prompt submission; a text recognised as a control command
\* is never matched against the pending permissions, and a text correlated
\* as a permission reply is never submitted to the Terminal as a prompt nor
\* recorded in the echo buffer.
C29_FourPathsInOrder ==
  /\ [][HandlerStarts(1) =>
          LET tk == ticks'[1]
          IN /\ PathOf(tk) = StatedPath(tk.content, pendingPermissions')
             /\ PathOf(tk) = "control" => tk.loc.perm = "" /\ hist'.decisions = hist.decisions
             /\ PathOf(tk) = "permission" => hist'.decisions # hist.decisions
             /\ messagesFromUI' = IF PathOf(tk) = "prompt"
                                  THEN addUIMessage(messagesFromUI, tk.content)
                                  ELSE messagesFromUI]_vars
  /\ [][(InHandler(ticks[1]) /\ ticks'[1] # ticks[1]) =>
          \/ PathOf(ticks'[1]) = PathOf(ticks[1]) /\ ticks'[1].idx = ticks[1].idx
          \/ ticks'[1].pc = "idle"
          \/ HandlerStarts(1)]_vars
  /\ [][(InHandler(ticks[1]) /\ PathOf(ticks[1]) # "prompt") =>
          term'.prompt = term.prompt /\ Len(term'.submitted) <= Len(term.submitted)]_vars

\* the text '/new', which is a built-in slash command, was correlated with
\* the pending permission whose option is labelled '/new': the decision was
\* issued, the entry is gone, and the text is neither in the echo buffer nor
\* at the Terminal
C29_Witness ==
  /\ hist.decisions["perm1"] = 1
  /\ pendingPermissions = << >>
  /\ ticks[1].pc = "idle"
  /\ remote[Len(remote)].content = << "/new" >>
  /\ Len(remote) \in hist.handled
  /\ messagesFromUI = << >>
  /\ "/new" \notin PromptTokens

\* C27: stopping the poller takes effect before the next tick: once stop()
\* has returned no new poll tick starts, while the callbacks in flight run
\* on; start() on a started poller sets no second timer, so at most one
\* poll timer is active at any time.
C27_StopBeforeNextTick ==
  /\ [](timers = IF interval THEN 1 ELSE 0)
  /\ [][(\E type \in DisposeEvents : Disposed(type)) =>
          ~interval' /\ timers' = 0 /\ ticks' = ticks]_vars
  /\ [][(\E t \in 1..MaxTicks : ticks[t].pc = "idle" /\ ticks'[t].pc = "fetch") => interval]_vars
  /\ [][(interval /\ interval' /\ timers' # timers) => FALSE]_vars

\* the poller is stopped while one callback is still in its handler: the
\* other slot stays idle, and the Remote text it would fetch is waiting
C27_Witness ==
  /\ ~interval
  /\ ticks[1].pc = "submit"
  /\ ticks[2].pc = "idle"
  /\ PendingAfter(lastMessageId) # << >>

\* C28: a collaborator failure while one Remote message is handled aborts
\* the handling of that message only: the callback goes on with the
\* remaining messages of its batch (it ends only when none is left), the
\* poll timer keeps running, and the next tick polls again.
C28_FailureAbortsOneMessageOnly ==
  /\ [][\A t \in 1..MaxTicks :
          (InHandler(ticks[t]) /\ ticks'[t].pc = "idle") =>
            NextUser(ticks[t].batch, ticks[t].idx + 1) = 0]_vars
  /\ [](interval /\ timers = 1)
  /\ [](ticks[1].pc = "idle" => ENABLED TickFires(1))

\* the ids the pending permissions are recorded under
PendingIds == { pendingPermissions[i].id : i \in DOMAIN pendingPermissions }

\* C30: once the permission-replied notice for an id has been handled, no
\* PendingPermission for that id exists in any later state (an id is asked
\* once here), also when the notice comes while the handler of the request
\* still awaits its send to Remote; so no later Remote text is taken for a
\* reply to a permission that is already resolved.
C30_NoPendingAfterReplied ==
  /\ [][\A p \in PermIds : PermissionReplied(p) => p \notin PendingIds']_vars
  /\ [](PendingIds \cap hist.replied = {})

\* C31: when an agent_type control command has been handled, the tracked
\* selector position (tuiCurrentAgent, the first place when none is tracked)
\* is the place the Terminal's selector is at, also when a step of the
\* agent.cycle loop has failed.
C31_TrackedIsSelector ==
  LET tk == ticks[1]
      pa == primaryAgentsOf(term.agents)
  IN (tk.pc = "ctl_status" /\ tk.loc.nextAgent # "") =>
       CurPos(pa, tuiCurrentAgent) = term.sel

\* the decisions of the options offered for a pending permission
OfferedDecisions(pp, id) ==
  { OptionsOf(pp, id)[i].response : i \in DOMAIN OptionsOf(pp, id) }

\* C32: the decision issued for a correlated reply is the decision of one
\* of the options offered for that permission, whatever option list the
\* constructor has built (custom lists of one or two labels included).
C32_DecisionIsOffered ==
  LET tk == ticks[1]
  IN (tk.pc = "perm_post" /\ tk.loc.perm \in PendingIds) =>
       tk.loc.matched \in OfferedDecisions(pendingPermissions, tk.loc.perm)

\* the places of the pending list pp whose options the reply matches
MatchingPlaces(pp, reply) ==
  { i \in DOMAIN pp : parsePermissionReply(reply, pp[i].options) # "null" }

\* C33: when several permissions are pending, one matching Remote reply
\* resolves exactly one of them, the earliest registered whose options match
\* it; the decision goes to that permission's own session and id, and every
\* other pending permission stays pending.
C33_OneReplyResolvesEarliestMatch ==
  /\ [][(HandlerStarts(1) /\ MatchingPlaces(pendingPermissions', ticks'[1].content) # {}) =>
          LET tk == ticks'[1]
              hits == MatchingPlaces(pendingPermissions', tk.content)
              first == CHOOSE i \in hits : \A j \in hits : i <= j
              chosen == pendingPermissions'[first]
          IN /\ tk.pc = "perm_post"
             /\ tk.loc.perm = chosen.id /\ tk.loc.sessionID = chosen.sessionID
             /\ tk.loc.matched = parsePermissionReply(tk.content, chosen.options)
             /\ hist'.decisions = [ hist.decisions EXCEPT ![chosen.id] = @ + 1 ]]_vars
  /\ [][\A o \in Outcomes : PermPostReturns(1, o) =>
          pendingPermissions' = SelectSeq(pendingPermissions, LAMBDA e : e.id # ticks[1].loc.perm)]_vars
  /\ [](\A i, j \in DOMAIN pendingPermissions :
          pendingPermissions[i].id = pendingPermissions[j].id => i = j)

\* perm1, with its own labels, was registered before perm2, with the default
\* options; the reply 'allow always' matches perm2 only and has resolved it
\* in session s2, and perm1 is still pending
C33_Witness ==
  /\ hist.decisions = [ p \in PermIds |-> IF p = "perm2" THEN 1 ELSE 0 ]
  /\ ticks[1].pc = "idle"
  /\ Len(pendingPermissions) = 1 /\ pendingPermissions[1].id = "perm1"
  /\ term.open = { "perm1" }
  /\ \E id \in DOMAIN remote : remote[id].content = << "allow", " ", "always" >>

\* the text is a Remote prompt on its way through the Terminal: its handler
\* is still in flight, or it was submitted and its echo is yet to come
EchoOutstanding(text) ==
  \/ InHandler(ticks[1]) /\ normalizeMessage(ticks[1].content) = text
  \/ \E k \in DOMAIN term.submitted :
       /\ term.submitted[k].origin = "remote"
       /\ normalizeMessage(term.submitted[k].text) = text

\* C34: the echo buffer holds only texts of Remote prompts that were
\* submitted to the Terminal and whose echo has not been observed yet; so a
\* user message typed at the Terminal is always forwarded to Remote, also
\* after a prompt submission to the Terminal has failed.
C34_BufferHoldsOutstandingEchoes ==
  /\ [](\A i \in DOMAIN messagesFromUI : EchoOutstanding(messagesFromUI[i]))
  /\ [][(/\ term.submitted # << >>
          /\ Head(term.submitted).origin = "typed"
          /\ term'.submitted = Tail(term.submitted)) =>
          /\ Len(hooks') = Len(hooks) + 1
          /\ hooks'[Len(hooks')].kind = "user"
          /\ hooks'[Len(hooks')].content = Head(term.submitted).text]_vars

\* the emissions of a text: the sends in flight and the messages at Remote
\* that carry it
Emissions(content) ==
  Cardinality({ i \in DOMAIN hooks : hooks[i].kind = "tool" /\ hooks[i].content = content })
    + Cardinality({ i \in DOMAIN remote : remote[i].content = content })

\* C35: a tool invocation that has reached a terminal status is emitted to
\* Remote once, however many part-update events the Terminal delivers for
\* the tool part in that status.
C35_ToolEmittedOnce ==
  \A part \in ToolEvents :
    part.status \in { "completed", "error" } => Emissions(formatToolPart(part)) <= 1

\* C36: every accumulator state a part event has created is discarded in
\* the end, for the parts of user messages as for those of assistant
\* messages: the accumulator map does not grow without bound.
C36_StatesEventuallyDiscarded ==
  \A m \in MsgIds : (m \in DOMAIN messagePartsById) ~> (m \notin DOMAIN messagePartsById)

\* the selectable agents: neither a subagent nor hidden
Selectable(agents) ==
  { agents[i] : i \in { k \in DOMAIN agents : agents[k].mode # "subagent" /\ ~agents[k].hidden } }

\* the canonical name of the selectable agent the value names when case is
\* ignored, UNDEF when there is none
StatedMatch(agents, value) ==
  IF \E a \in Selectable(agents) : LowerTok(a.name) = LowerTok(value)
  THEN (CHOOSE a \in Selectable(agents) : LowerTok(a.name) = LowerTok(value)).name
  ELSE UNDEF

\* C37: an agent_type control command lower-cases its value and matches it,
\* case ignored, against the selectable agents (no subagent, no hidden
\* agent).  When no agent matches, or the value is missing or not a string,
\* preferredAgent and tuiCurrentAgent stay as they are and no agent.cycle is
\* issued; on a match preferredAgent becomes the canonical name of the agent.
C37_AgentTypeMatching ==
  /\ [][(HandlerStarts(1) /\ StatedPayload(ticks'[1].content).setting = "agent_type") =>
          LET value == StatedPayload(ticks'[1].content).value
          IN /\ IF IsString(value)
                THEN ticks'[1].pc = "ctl_agents" /\ ticks'[1].loc.nextAgent = LowerTok(value)
                ELSE ticks'[1].pc = "ctl_status"
             /\ preferredAgent' = preferredAgent /\ tuiCurrentAgent' = tuiCurrentAgent
             /\ hist'.cycleOps = hist.cycleOps]_vars
  /\ [][\A o \in Outcomes :
          CtlAgentsReturns(1, o) =>
            LET match == StatedMatch(term.agents, ticks[1].loc.nextAgent)
            IN IF match = UNDEF
               THEN /\ preferredAgent' = preferredAgent /\ tuiCurrentAgent' = tuiCurrentAgent
                    /\ ticks'[1].pc = "ctl_send"
               ELSE preferredAgent' = match]_vars
  /\ [](ticks[1].pc \in { "cyc_agents", "cyc_step" } =>
          StatedMatch(term.agents, ticks[1].loc.nextAgent) # UNDEF)

\* C38: every update of a user message that carries an agent sets
\* tuiCurrentAgent and preferredAgent to that agent, and an agent-switch
\* notice goes to Remote only when the agent differs from the one tracked
\* before; so after a switch asked for from Remote and cycled without a
\* failure, the next user message that reports that agent gives no notice.
C38_AgentTrackingAndNotice ==
  /\ [][\A message \in SwitchMessages :
          MessageUpdated(message) =>
            IF message.role = "user" /\ message.agent # UNDEF
            THEN /\ tuiCurrentAgent' = message.agent /\ preferredAgent' = message.agent
                 /\ IF tuiCurrentAgent # message.agent
                    THEN hooks' = Append(hooks, Hook("switch", message.agent,
                                                     AgentSwitchText(message.agent), << >>))
                    ELSE hooks' = hooks
            ELSE /\ tuiCurrentAgent' = tuiCurrentAgent /\ preferredAgent' = preferredAgent
                 /\ hooks' = hooks]_vars
  /\ [][Len(SelectSeq(hooks', LAMBDA h : h.kind = "switch"))
          > Len(SelectSeq(hooks, LAMBDA h : h.kind = "switch")) =>
          \E message \in SwitchMessages :
            /\ MessageUpdated(message)
            /\ message.role = "user" /\ message.agent \notin { UNDEF, tuiCurrentAgent }]_vars
  /\ [][\A i \in 1..MaxHooks, ok \in BOOLEAN :
          (SendReturns(i, ok) /\ hooks[i].kind = "switch" /\ ok) =>
            remote' = Append(remote, RemoteMessage("AGENT", hooks[i].content, ""))]_vars

\* the command for 'build' from Remote has cycled the selector one place
\* without a failure, and the user message after it reports 'build': no
\* switch notice is in flight and none is at Remote
C38_Witness ==
  /\ hist.cycleOps = 1 /\ hist.stepOutcomes = { "ok" }
  /\ ticks[1].pc = "idle"
  /\ term.sel = 2
  /\ hist.reported = "build" /\ tuiCurrentAgent = "build" /\ preferredAgent = "build"
  /\ hooks = << >>
  /\ \A i \in DOMAIN remote : remote[i].content # AgentSwitchText("build")
  /\ \E i \in DOMAIN remote : remote[i].content = AgentChangedText("build")

\* C39: the send and the poll of the Remote client never raise.  A failed
\* send returns null and a failed or stale poll returns an empty list, and
\* both leave lastMessageId as it is; lastMessageId changes only to the id a
\* successful send returned or to the id of the last message of a non-empty
\* successful poll.
C39_ClientNeverRaises ==
  /\ [](SendResult("AGENT", << "x" >>, "", FALSE)
          = [ remote |-> remote, lastMessageId |-> lastMessageId, message_id |-> 0 ])
  /\ [][\A i \in 1..MaxHooks, ok \in BOOLEAN :
          SendReturns(i, ok) =>
            /\ hooks' = RemoveAt(hooks, i)
            /\ IF ok
               THEN /\ Len(remote') = Len(remote) + 1
                    /\ remote'[Len(remote')].content = hooks[i].content
                    /\ lastMessageId' = Len(remote')
               ELSE remote' = remote /\ lastMessageId' = lastMessageId]_vars
  /\ [][\A ok \in BOOLEAN :
          FetchReturns(1, ok) =>
            LET messages == PendingAfter(ticks[1].req)
            IN IF ok /\ messages # << >>
               THEN /\ lastMessageId' = messages[Len(messages)]
                    /\ InHandler(ticks'[1]) /\ ticks'[1].batch = messages
               ELSE lastMessageId' = lastMessageId /\ ticks'[1] = IdleTick]_vars
  /\ [][lastMessageId' # lastMessageId =>
          \/ \E i \in 1..MaxHooks : SendReturns(i, TRUE)
          \/ FetchReturns(1, TRUE) /\ PendingAfter(ticks[1].req) # << >>]_vars

\* the send of the one message typed at the Terminal has failed: it is not
\* at Remote, nothing is in flight, and the read cursor is where it was, so
\* the prompt that waits at Remote is still to be polled
C39_Witness ==
  /\ hist.typed = 1 /\ term.submitted = << >> /\ hooks = << >>
  /\ hist.handled = {} /\ messagesFromUI = << >>
  /\ \A i \in DOMAIN remote : remote[i].sender_type = "USER" => remote[i].of = "ui"
  /\ lastMessageId = 1
  /\ PendingAfter(lastMessageId) # << >>
  /\ ticks[1].pc = "idle"

\* the built-in commands and their Terminal actions
BuiltIn == [ new |-> "session.new", compact |-> "session.compact", share |-> "session.share" ]

\* the text is a built-in slash command with no arguments
StatedDirect(text) ==
  LET trimmed == Trim(text)
  IN /\ Len(trimmed) = 1
     /\ trimmed[1] \in SlashWords
     /\ SlashBody(LowerTok(trimmed[1])) \in DOMAIN BuiltIn

\* C40: a Remote text is executed directly as a Terminal action, and not
\* submitted as a prompt, exactly when it is a built-in slash command with
\* no arguments, and then exactly one Terminal action is issued; a built-in
\* command with arguments, a custom or unknown command and a text that does
\* not start with '/' are unhandled and go on to the prompt submission.
C40_DirectExactlyForBuiltIns ==
  /\ [][HandlerStarts(1) =>
          LET tk == ticks'[1]
          IN IF StatedDirect(tk.content)
             THEN /\ tk.pc = "slash_exec"
                  /\ tk.loc.action = BuiltIn[SlashBody(LowerTok(Trim(tk.content)[1]))]
                  /\ messagesFromUI' = messagesFromUI
             ELSE /\ tk.pc = "append"
                  /\ messagesFromUI' = addUIMessage(messagesFromUI, tk.content)]_vars
  /\ [][\A o \in Outcomes :
          SlashExecReturns(1, o) =>
            /\ term' = term
            /\ ticks'[1].pc = "idle" \/ ticks'[1].idx > ticks[1].idx]_vars
  /\ [](PathOf(ticks[1]) = "slash" => StatedDirect(ticks[1].content))
  /\ [](\A i \in DOMAIN term.submitted : ~StatedDirect(term.submitted[i].text))

====
